---- MODULE Spec2Model ----
(***************************************************************************)
(* Lifecycle builder (src/src/App.tsx): the reachability engine, the       *)
(* lifecycle validator, the workbook import/export handlers and the        *)
(* editor state they act on.                                               *)
(*                                                                         *)
(* Representation.                                                         *)
(*  - A JavaScript Set is an insertion-ordered collection without          *)
(*    duplicates: it is a duplicate-free sequence, iterated left to right. *)
(*  - An edge key is the string `${source}->${target}`.  It is represented *)
(*    by the sequence of its "->"-separated parts, which is what           *)
(*    key.split("->") returns; the NameIDs of the model contain no "->".   *)
(*  - Cell texts, titles and names are strings of a finite alphabet; the   *)
(*    string functions (trim, toLowerCase, /\.0$/ replacement) are given   *)
(*    by their graph on that alphabet.                                     *)
(***************************************************************************)
EXTENDS Integers, Sequences, FiniteSets, TLC

VARIABLES
    nodes,            \* useState<NodeRow[]>   : the Master Catalog's nodes
    edges,            \* useState<EdgeRow[]>   : the catalog's edges (descriptions editable)
    lifecycleMode,    \* "none" | "create" | "edit"
    title,
    description,
    activeEdgeKeys,   \* Set<string> of keys "src->tgt"
    nodeDesc,         \* Record<NameID, string>: per-node description overrides
    dirty,
    filterMode,       \* null | "id" | "group" | "legend"
    selectedName,
    selectedGroup,
    legendActive,     \* Set<string> of families
    pending,          \* handleLifecycleLoad calls suspended at `await file.arrayBuffer()`
    io,               \* the last alert shown, file written or file read
    fnArgs,           \* arguments of a pure function under check
    fnRet,            \* its result
    autosave          \* the autosave effect: its timeouts, its dependency, the stored item

vars == <<nodes, edges, lifecycleMode, title, description, activeEdgeKeys, nodeDesc,
          dirty, filterMode, selectedName, selectedGroup, legendActive, pending, io,
          fnArgs, fnRet, autosave>>

editorVars == <<nodes, edges, lifecycleMode, title, description, activeEdgeKeys, nodeDesc,
                dirty, filterMode, selectedName, selectedGroup, legendActive, pending, io,
                autosave>>

-----------------------------------------------------------------------------
(* JavaScript values and Set<T>                                            *)

UNDEF == "undefined"
NULL == "null"

Range(s) == {s[i] : i \in 1..Len(s)}

NoDup(s) == \A i, j \in 1..Len(s) : s[i] = s[j] => i = j

SetHas(S, x) == \E i \in 1..Len(S) : S[i] = x

SetAdd(S, x) == IF SetHas(S, x) THEN S ELSE Append(S, x)

SetDelete(S, x) == SelectSeq(S, LAMBDA y : y # x)

RECURSIVE NewSet(_)
NewSet(arr) == IF arr = <<>> THEN <<>>
               ELSE SetAdd(NewSet(SubSeq(arr, 1, Len(arr) - 1)), arr[Len(arr)])

\* `${s}->${t}` and key.split("->")
Key(s, t) == <<s, t>>

KeySrc(key) == key[1]

KeyTgt(key) == IF Len(key) >= 2 THEN key[2] ELSE UNDEF

\* key.startsWith(id + "->")
StartsWithSrc(key, id) == Len(key) >= 2 /\ key[1] = id

\* All duplicate-free sequences of length <= n over the set S
SeqsUpTo(S, n) == UNION {{s \in [1..k -> S] : NoDup(s)} : k \in 0..n}

-----------------------------------------------------------------------------
(* bfsReachable (App.tsx 490-504)                                          *)

\* the body of `for (const key of edgesSet)` for the dequeued node u, from key i on
RECURSIVE bfsScanUndirected(_, _, _, _, _)
bfsScanUndirected(u, edgesSet, i, seen, q) ==
    IF i > Len(edgesSet) THEN <<seen, q>>
    ELSE LET s == KeySrc(edgesSet[i])
             t == KeyTgt(edgesSet[i])
         IN  IF s = u /\ ~SetHas(seen, t)
             THEN bfsScanUndirected(u, edgesSet, i + 1, SetAdd(seen, t), Append(q, t))
             ELSE IF t = u /\ ~SetHas(seen, s)
             THEN bfsScanUndirected(u, edgesSet, i + 1, SetAdd(seen, s), Append(q, s))
             ELSE bfsScanUndirected(u, edgesSet, i + 1, seen, q)

RECURSIVE bfsScanRevisit(_, _, _, _, _)
bfsScanRevisit(u, edgesSet, i, seen, q) ==
    IF i > Len(edgesSet) THEN <<seen, q>>
    ELSE LET s == KeySrc(edgesSet[i])
             t == KeyTgt(edgesSet[i])
         IN  IF s = u
             THEN bfsScanRevisit(u, edgesSet, i + 1, SetAdd(seen, t), Append(q, t))
             ELSE bfsScanRevisit(u, edgesSet, i + 1, seen, q)

RECURSIVE bfsScan(_, _, _, _, _)
bfsScan(u, edgesSet, i, seen, q) ==
    IF i > Len(edgesSet) THEN <<seen, q>>
    ELSE LET s == KeySrc(edgesSet[i])
             t == KeyTgt(edgesSet[i])
         IN  IF s = u /\ ~SetHas(seen, t)
             THEN bfsScan(u, edgesSet, i + 1, SetAdd(seen, t), Append(q, t))
             ELSE bfsScan(u, edgesSet, i + 1, seen, q)

\* `while (q.length) { const u = q.shift()!; ... }`
RECURSIVE bfsLoop(_, _, _)
bfsLoop(edgesSet, seen, q) ==
    IF q = <<>> THEN seen
    ELSE LET r == bfsScan(Head(q), edgesSet, 1, seen, Tail(q))
         IN  bfsLoop(edgesSet, r[1], r[2])

bfsReachable(start, edgesSet) ==
    bfsLoop(edgesSet,
            IF start # "" THEN <<start>> ELSE <<>>,
            IF start # "" THEN <<start>> ELSE <<>>)

\* The least set that contains start and is closed under the edges E (source to target)
Closure(start, E, U) ==
    IF start = "" THEN {}
    ELSE LET Closed(S) == start \in S /\ \A k \in E : KeySrc(k) \in S => KeyTgt(k) \in S
         IN  CHOOSE S \in SUBSET (U \cup {start}) :
                 /\ Closed(S)
                 /\ \A T \in SUBSET (U \cup {start}) : Closed(T) => S \subseteq T

-----------------------------------------------------------------------------
(* String functions, by their graph on the strings of the model            *)

\* String.prototype.trim
trim(s) ==
    CASE s = " " -> ""
      [] s = " 2 " -> "2"
      [] s = " My Flow " -> "My Flow"
      [] OTHER -> s

\* String.prototype.toLowerCase
toLowerCase(s) ==
    CASE s = "Specify needs" -> "specify needs"
      [] s = "Acquire" -> "acquire"
      [] s = "Use" -> "use"
      [] s = "Share" -> "share"
      [] s = "Dispose" -> "dispose"
      [] s = "Archive" -> "archive"
      [] OTHER -> s

-----------------------------------------------------------------------------
(* The Master Catalog (nodes_final.csv, edges_final.csv) and what is       *)
(* derived from it                                                         *)

NodeRow(id, name, fam, famId, def) ==
    [NameID |-> id, Name |-> name, Family |-> fam, FamilyID |-> famId, Definition |-> def]

EdgeRow(id, s, t, g, d) ==
    [id |-> id, source |-> s, target |-> t, group |-> g, description |-> d]

nSpecify == NodeRow("1", "Specify needs", "INITIATION", "F1", "def specify")
nAcquire == NodeRow("2", "Acquire", "ACQUISITION", "F2", "def acquire")
nUse == NodeRow("3", "Use", "LEVERAGING", "F5", "def use")
nShare == NodeRow("4", "Share", "LEVERAGING", "F5", "def share")
nDispose == NodeRow("5", "Dispose", "DISPOSITION", "F6", "def dispose")

MasterNodes == <<nSpecify, nAcquire, nUse, nShare, nDispose>>

\* the edges of the catalog: the path Specify needs -> Acquire -> Use -> Dispose and
\* the branch Acquire -> Share (scenario 1 of the spec, with the stage Use between)
MasterEdges ==
    <<EdgeRow("1", "1", "2", "F1", "plan to acquire"), EdgeRow("2", "2", "3", "F2", ""),
      EdgeRow("3", "3", "5", "F5", ""), EdgeRow("4", "2", "4", "F2", "")>>

\* the same with the cycle Use -> Acquire
CyclicEdges == Append(MasterEdges, EdgeRow("5", "3", "2", "F5", ""))

\* a catalog without the nodes of `drop`, and without the edges that touch them
CatalogNodes(drop) == SelectSeq(MasterNodes, LAMBDA n : n.NameID \notin drop)

CatalogEdges(drop, all) ==
    SelectSeq(all, LAMBDA e : e.source \notin drop /\ e.target \notin drop)

\* nodes.find((r) => r.Name.toLowerCase() === lname)?.NameID ?? ""
FindIdByName(lname) ==
    IF \E i \in 1..Len(nodes) : toLowerCase(nodes[i].Name) = lname
    THEN nodes[CHOOSE i \in 1..Len(nodes) :
                   /\ toLowerCase(nodes[i].Name) = lname
                   /\ \A j \in 1..(i - 1) : toLowerCase(nodes[j].Name) # lname].NameID
    ELSE ""

startNodeId == FindIdByName("specify needs")

disposeId == FindIdByName("dispose")

shareId == FindIdByName("share")

\* nodeById[id]?.Name || id    (Object.fromEntries: the last row of an id wins)
NameOrId(id) ==
    IF \E i \in 1..Len(nodes) : nodes[i].NameID = id
    THEN LET n == nodes[CHOOSE i \in 1..Len(nodes) :
                          /\ nodes[i].NameID = id
                          /\ \A j \in (i + 1)..Len(nodes) : nodes[j].NameID # id]
         IN  IF n.Name # "" THEN n.Name ELSE id
    ELSE id

-----------------------------------------------------------------------------
(* Workbooks, alerts and the record of the last input or output            *)

SheetNames == {"Metadata", "Nodes", "Edges"}

MetaHeader == <<"Title", "Description", "CreatedDate", "CreatedTime">>

\* a workbook file: whether XLSX.read can read it, its sheets, and their rows
Workbook(readable, sheets, meta, nodeRows, edgeRows) ==
    [readable |-> readable, sheets |-> sheets, Metadata |-> meta, Nodes |-> nodeRows,
     Edges |-> edgeRows]

NoFile == Workbook(FALSE, {}, <<>>, <<>>, <<>>)

NoIo == [kind |-> "none", head |-> "", lines |-> <<>>, file |-> NoFile]

\* alert(head + lines.join("\n"))
Alert(head, lines) == [kind |-> "alert", head |-> head, lines |-> lines, file |-> NoFile]

\* calls of handleLifecycleLoad that may be in flight at once
MaxPending == 1

\* no override for any node: nodeDesc = {}
NoNodeDesc == [id \in {"1", "2", "3", "4", "5"} |-> UNDEF]

-----------------------------------------------------------------------------
(* getLifecycleErrors (App.tsx 2186-2220)                                  *)

Err(kind, name) == [kind |-> kind, name |-> name]

ErrTitle == Err("A Title is required.", "")
ErrDescription == Err("A Description is required.", "")
ErrNoStart == Err("The required start node 'Specify needs' was not found.", "")
ErrNoDispose == Err("The required end node 'Dispose' was not found.", "")
ErrDisposeUnreachable ==
    Err("Your path must allow 'Dispose' to be reachable from 'Specify needs'.", "")
ErrEndpoint(name) == Err("is an endpoint, but only 'Dispose' or 'Share' may end a branch.", name)
ErrDangling(name) == Err("is active, but is not reachable from 'Specify needs'.", name)

\* lines 2189-2190
textErrorsUntrimmed ==
    (IF title = "" THEN <<ErrTitle>> ELSE <<>>)
    \o (IF description = "" THEN <<ErrDescription>> ELSE <<>>)

textErrors ==
    (IF trim(title) = "" THEN <<ErrTitle>> ELSE <<>>)
    \o (IF trim(description) = "" THEN <<ErrDescription>> ELSE <<>>)

\* lines 2192-2193
missingNodeErrors ==
    (IF startNodeId = "" THEN <<ErrNoStart>> ELSE <<>>)
    \o (IF disposeId = "" THEN <<ErrNoDispose>> ELSE <<>>)

\* line 2194
abortsNever == FALSE

aborts == startNodeId = "" \/ disposeId = ""

\* lines 2199-2201
terminals(reachable) ==
    SelectSeq(reachable,
              LAMBDA nodeId : ~\E i \in 1..Len(activeEdgeKeys) :
                                  StartsWithSrc(activeEdgeKeys[i], nodeId))

\* lines 2202-2209
endpointErrorsDisposeOnly(reachable) ==
    LET bad == SelectSeq(terminals(reachable), LAMBDA termId : termId # disposeId)
    IN  [i \in 1..Len(bad) |-> ErrEndpoint(NameOrId(bad[i]))]

endpointErrors(reachable) ==
    LET bad == SelectSeq(terminals(reachable),
                         LAMBDA termId : ~(termId = disposeId) /\ ~(termId = shareId))
    IN  [i \in 1..Len(bad) |-> ErrEndpoint(NameOrId(bad[i]))]

\* lines 2211-2217
danglingErrorsByTarget(reachable) ==
    LET bad == SelectSeq(activeEdgeKeys, LAMBDA key : ~SetHas(reachable, KeyTgt(key)))
    IN  [i \in 1..Len(bad) |-> ErrDangling(NameOrId(KeyTgt(bad[i])))]

danglingErrors(reachable) ==
    LET bad == SelectSeq(activeEdgeKeys, LAMBDA key : ~SetHas(reachable, KeySrc(key)))
    IN  [i \in 1..Len(bad) |-> ErrDangling(NameOrId(KeySrc(bad[i])))]

\* lines 2196-2217
graphErrorsFirstOnly ==
    LET reachable == bfsReachable(startNodeId, activeEdgeKeys)
        all == (IF ~SetHas(reachable, disposeId) THEN <<ErrDisposeUnreachable>> ELSE <<>>)
               \o endpointErrors(reachable)
               \o danglingErrors(reachable)
    IN  IF all = <<>> THEN <<>> ELSE <<Head(all)>>

graphErrors ==
    LET reachable == bfsReachable(startNodeId, activeEdgeKeys)
    IN  (IF ~SetHas(reachable, disposeId) THEN <<ErrDisposeUnreachable>> ELSE <<>>)
        \o endpointErrors(reachable)
        \o danglingErrors(reachable)

getLifecycleErrors ==
    LET errs == textErrors \o missingNodeErrors
    IN  IF aborts THEN errs ELSE errs \o graphErrors

\* the Validate button (lines 2668-2679)
ValidateClick ==
    /\ lifecycleMode # "none"
    /\ LET errs == getLifecycleErrors
       IN  io' = IF Len(errs) = 0
                 THEN Alert("Lifecycle valid. You can now Save.", <<>>)
                 ELSE Alert("Validation failed:", errs)
    /\ UNCHANGED <<nodes, edges, lifecycleMode, title, description, activeEdgeKeys,
                   nodeDesc, dirty, filterMode, selectedName, selectedGroup,
                   legendActive, pending, fnArgs, fnRet, autosave>>

-----------------------------------------------------------------------------
(* Derived values of the component (useMemo)                               *)

\* activeNodeIds (line 763)
activeNodeIds == bfsReachable(startNodeId, activeEdgeKeys)

CANON_FAMILY_ORDER ==
    <<"INITIATION", "ACQUISITION", "CONFIGURATION", "PROCESSING", "LEVERAGING", "DISPOSITION">>

\* canonFam (lines 334-355): the one-word families are canonical, the three-word
\* forms map to them, anything else is left as it is
canonFam(f) ==
    CASE f = "Plan, design & enable" -> "INITIATION"
      [] f = "Create, Capture & Collect" -> "ACQUISITION"
      [] f = "Access, use & share" -> "LEVERAGING"
      [] f = "Organize, store & maintain" -> "CONFIGURATION"
      [] f = "Provision, integrate & Curate" -> "PROCESSING"
      [] f = "Archive transfer & destroy" -> "DISPOSITION"
      [] OTHER -> f

\* groups = sortFamiliesCanonical(nodes.map(n => canonFam(n.Family))) (lines 391-402,
\* 691-697), for families that all have a rank in CANON_FAMILY_ORDER
groups ==
    SelectSeq(CANON_FAMILY_ORDER,
              LAMBDA f : \E i \in 1..Len(nodes) : canonFam(nodes[i].Family) = f)

\* edges.findIndex((x) => x.source === s && x.target === t), 0 when there is none
FindEdgeIndex(list, s, t) ==
    IF \E i \in 1..Len(list) : list[i].source = s /\ list[i].target = t
    THEN CHOOSE i \in 1..Len(list) :
             /\ list[i].source = s /\ list[i].target = t
             /\ \A j \in 1..(i - 1) : ~(list[j].source = s /\ list[j].target = t)
    ELSE 0

\* id in nodeById
InNodeById(id) == \E i \in 1..Len(nodes) : nodes[i].NameID = id

\* nodeById[id], for an id in nodeById (Object.fromEntries: the last row of an id wins)
NodeById(id) ==
    nodes[CHOOSE i \in 1..Len(nodes) :
              /\ nodes[i].NameID = id
              /\ \A j \in (i + 1)..Len(nodes) : nodes[j].NameID # id]

\* nodes.find((n) => n.NameID === id), for an id some row has
FindNode(id) ==
    nodes[CHOOSE i \in 1..Len(nodes) :
              /\ nodes[i].NameID = id
              /\ \A j \in 1..(i - 1) : nodes[j].NameID # id]

\* String(n)
ToStr(n) ==
    CASE n = 1 -> "1" [] n = 2 -> "2" [] n = 3 -> "3" [] n = 4 -> "4" [] n = 5 -> "5"
      [] n = 6 -> "6" [] n = 7 -> "7" [] OTHER -> "8"

-----------------------------------------------------------------------------
(* handleLifecycleLoad (App.tsx 2036-2175)                                 *)

\* toText (line 2038): null and undefined give "", the rest is trimmed
toText(v) == IF v = NULL \/ v = UNDEF THEN "" ELSE trim(v)

\* stripDot0 (line 2039): s.replace(/\.0$/, "")
stripDot0(s) ==
    CASE s = "3.0" -> "3"
      [] s = "3.0.0" -> "3.0"
      [] OTHER -> s

\* metaAoa[1][i] (lines 2053-2058)
metaTitle(meta) ==
    IF Len(meta) >= 2 THEN toText(IF Len(meta[2]) >= 1 THEN meta[2][1] ELSE UNDEF) ELSE ""

metaDescription(meta) ==
    IF Len(meta) >= 2 THEN toText(IF Len(meta[2]) >= 2 THEN meta[2][2] ELSE UNDEF) ELSE ""

\* lines 2061-2068
parseNodes(rawNodes) ==
    [i \in 1..Len(rawNodes) |->
        NodeRow(stripDot0(toText(rawNodes[i].NameID)),
                toText(rawNodes[i].Name),
                canonFam(toText(rawNodes[i].Family)),
                stripDot0(toText(rawNodes[i].FamilyID)),
                toText(rawNodes[i].Definition))]

\* lines 2071-2078
parseEdges(rawEdges) ==
    [i \in 1..Len(rawEdges) |->
        EdgeRow(IF toText(rawEdges[i].id) # "" THEN toText(rawEdges[i].id) ELSE ToStr(i),
                stripDot0(toText(rawEdges[i].source)),
                stripDot0(toText(rawEdges[i].target)),
                stripDot0(toText(rawEdges[i].group)),
                IF toText(rawEdges[i].description) # "" THEN toText(rawEdges[i].description)
                ELSE "No description")]

\* lines 2082-2108: the rows after the auto-heal of Specify needs and Specify needs -> Acquire
healedNodes(inNodes) ==
    LET specifyId == FindIdByName("specify needs")
        acquireId == FindIdByName("acquire")
    IN  IF specifyId # "" /\ acquireId # ""
           /\ ~\E i \in 1..Len(inNodes) : inNodes[i].NameID = specifyId
        THEN Append(inNodes, FindNode(specifyId))
        ELSE inNodes

unhealedEdges(inEdges) == inEdges

healedEdges(inEdges) ==
    LET specifyId == FindIdByName("specify needs")
        acquireId == FindIdByName("acquire")
    IN  IF specifyId # "" /\ acquireId # ""
           /\ ~\E i \in 1..Len(inEdges) :
                  inEdges[i].source = specifyId /\ inEdges[i].target = acquireId
        THEN Append(inEdges,
                    EdgeRow(ToStr(Len(inEdges) + 1), specifyId, acquireId,
                            FindNode(specifyId).FamilyID, "No description"))
        ELSE inEdges

ProblemNode(id) ==
    [kind |-> "Nodes sheet: NameID not found in All Nodes",
     name |-> IF id = "" THEN <<"(missing)">> ELSE <<id>>]

ProblemEdge(key) == [kind |-> "Edges sheet: pair not found in All Edges", name |-> key]

\* lines 2115-2119
nodeProblemsFirstOnly(inNodes) ==
    LET bad == SelectSeq(inNodes,
                         LAMBDA n : n.NameID = ""
                                    \/ ~\E i \in 1..Len(nodes) : nodes[i].NameID = n.NameID)
    IN  [i \in 1..(IF Len(bad) > 0 THEN 1 ELSE 0) |-> ProblemNode(bad[i].NameID)]

nodeProblems(inNodes) ==
    LET bad == SelectSeq(inNodes,
                         LAMBDA n : n.NameID = ""
                                    \/ ~\E i \in 1..Len(nodes) : nodes[i].NameID = n.NameID)
    IN  [i \in 1..Len(bad) |-> ProblemNode(bad[i].NameID)]

\* lines 2121-2126; `master` is the edges array the call captured
edgeProblems(inEdges, master) ==
    LET bad == SelectSeq(inEdges,
                         LAMBDA e : ~\E i \in 1..Len(master) :
                                        Key(master[i].source, master[i].target)
                                            = Key(e.source, e.target))
    IN  [i \in 1..Len(bad) |-> ProblemEdge(Key(bad[i].source, bad[i].target))]

\* lines 2111-2126
importProblems(inNodes, inEdges, master) ==
    nodeProblems(inNodes) \o edgeProblems(inEdges, master)

nextActiveKept(inEdges) ==
    LET RECURSIVE add(_, _)
        add(set, rows) ==
            IF rows = <<>> THEN set
            ELSE add(SetAdd(set, Key(rows[1].source, rows[1].target)), Tail(rows))
    IN  add(activeEdgeKeys, inEdges)

\* lines 2139-2143
RECURSIVE nextActive(_)
nextActive(inEdges) ==
    IF inEdges = <<>> THEN <<>>
    ELSE LET e == inEdges[Len(inEdges)]
             rest == nextActive(SubSeq(inEdges, 1, Len(inEdges) - 1))
         IN  IF e.source # "" /\ e.target # "" THEN SetAdd(rest, Key(e.source, e.target))
             ELSE rest

\* lines 2146-2158: the captured edges with the imported descriptions merged in
RECURSIVE mergedEdges(_, _)
mergedEdges(master, inEdges) ==
    IF inEdges = <<>> THEN master
    ELSE LET imp == inEdges[Len(inEdges)]
             m == mergedEdges(master, SubSeq(inEdges, 1, Len(inEdges) - 1))
             idx == FindEdgeIndex(m, imp.source, imp.target)
         IN  IF imp.source = "" \/ imp.target = "" \/ idx = 0 THEN m
             ELSE [m EXCEPT ![idx].description =
                      IF imp.description # "" /\ trim(imp.description) # ""
                      THEN trim(imp.description)
                      ELSE IF m[idx].description # "" THEN m[idx].description
                      ELSE "No description"]

\* lines 2162-2167
RECURSIVE importedNodeDesc(_)
importedNodeDesc(inNodes) ==
    IF inNodes = <<>> THEN NoNodeDesc
    ELSE LET n == inNodes[Len(inNodes)]
             rest == importedNodeDesc(SubSeq(inNodes, 1, Len(inNodes) - 1))
         IN  IF n.NameID # "" /\ trim(n.Definition) # ""
             THEN [rest EXCEPT ![n.NameID] = trim(n.Definition)]
             ELSE rest

\* err?.message || "Unknown error" (line 2173)
Thrown(message) == [kind |-> message, name |-> <<>>]

\* what the last handleLifecycleLoad read and reported
Loaded(file, head, lines) == [kind |-> "load", head |-> head, lines |-> lines, file |-> file]

\* the call up to `await file.arrayBuffer()` (line 2042): it holds the edges array of
\* the render it was called in
LoadBegin ==
    /\ Len(pending) < MaxPending
    /\ pending' = Append(pending, edges)
    /\ io' = NoIo
    /\ UNCHANGED <<nodes, edges, lifecycleMode, title, description, activeEdgeKeys,
                   nodeDesc, dirty, filterMode, selectedName, selectedGroup,
                   legendActive, fnArgs, fnRet, autosave>>

\* lines 2041-2050 and 2171-2174: the file cannot be read, or a sheet is missing
LoadThrows(i, file) ==
    /\ ~file.readable \/ file.sheets # SheetNames
    /\ io' = Loaded(file, "Failed to load lifecycle: ",
                    <<Thrown(IF file.readable THEN "Expected sheets: Metadata, Nodes, Edges"
                             ELSE "Unknown error")>>)
    /\ UNCHANGED <<nodes, edges, lifecycleMode, title, description, activeEdgeKeys,
                   nodeDesc, dirty, filterMode, selectedName, selectedGroup,
                   legendActive, fnArgs, fnRet, autosave>>

\* lines 2128-2131: foreign-key problems
LoadRejectsCommitting(i, file) ==
    LET inNodes == healedNodes(parseNodes(file.Nodes))
        inEdges == healedEdges(parseEdges(file.Edges))
        problems == importProblems(inNodes, inEdges, pending[i])
    IN  /\ file.readable /\ file.sheets = SheetNames
        /\ Len(problems) > 0
        /\ io' = Loaded(file, "Import failed:", problems)
        /\ lifecycleMode' = "edit"
        /\ title' = metaTitle(file.Metadata)
        /\ description' = metaDescription(file.Metadata)
        /\ UNCHANGED <<nodes, edges, activeEdgeKeys,
                       nodeDesc, dirty, filterMode, selectedName, selectedGroup,
                       legendActive, fnArgs, fnRet, autosave>>

LoadRejects(i, file) ==
    LET inNodes == healedNodes(parseNodes(file.Nodes))
        inEdges == healedEdges(parseEdges(file.Edges))
        problems == importProblems(inNodes, inEdges, pending[i])
    IN  /\ file.readable /\ file.sheets = SheetNames
        /\ Len(problems) > 0
        /\ io' = Loaded(file, "Import failed:", problems)
        /\ UNCHANGED <<nodes, edges, lifecycleMode, title, description, activeEdgeKeys,
                       nodeDesc, dirty, filterMode, selectedName, selectedGroup,
                       legendActive, fnArgs, fnRet, autosave>>

\* lines 2133-2170: commit
LoadCommits(i, file) ==
    LET inNodes == healedNodes(parseNodes(file.Nodes))
        inEdges == healedEdges(parseEdges(file.Edges))
        problems == importProblems(inNodes, inEdges, pending[i])
    IN  /\ file.readable /\ file.sheets = SheetNames
        /\ Len(problems) = 0
        /\ lifecycleMode' = "edit"
        /\ title' = metaTitle(file.Metadata)
        /\ description' = metaDescription(file.Metadata)
        /\ activeEdgeKeys' = nextActive(inEdges)
        /\ edges' = mergedEdges(pending[i], inEdges)
        /\ nodeDesc' = importedNodeDesc(inNodes)
        /\ dirty' = TRUE
        /\ io' = Loaded(file, "", <<>>)
        /\ UNCHANGED <<nodes, filterMode, selectedName, selectedGroup, legendActive,
                       fnArgs, fnRet, autosave>>

\* the rest of the call i, once the file is read
LoadFinish(i, file) ==
    /\ i \in 1..Len(pending)
    /\ pending' = [j \in 1..(Len(pending) - 1) |-> IF j < i THEN pending[j] ELSE pending[j + 1]]
    /\ \/ LoadThrows(i, file)
       \/ LoadRejects(i, file)
       \/ LoadCommits(i, file)

-----------------------------------------------------------------------------
(* saveLifecycle (App.tsx 2222-2267)                                       *)

\* nodeDesc[id]
NodeDescOf(id) == IF id \in DOMAIN nodeDesc THEN nodeDesc[id] ELSE UNDEF

\* lines 2229-2236 over the targets of the active keys only: no row for the start
nodesOutTargets ==
    LET ids == SelectSeq(activeNodeIds,
                         LAMBDA id : /\ InNodeById(id)
                                     /\ \E k \in 1..Len(activeEdgeKeys) :
                                            KeyTgt(activeEdgeKeys[k]) = id)
    IN  [i \in 1..Len(ids) |->
            [NodeById(ids[i]) EXCEPT !.Definition =
                IF NodeDescOf(ids[i]) # UNDEF THEN NodeDescOf(ids[i]) ELSE @]]

\* lines 2229-2236
nodesOut ==
    LET ids == SelectSeq(activeNodeIds, InNodeById)
    IN  [i \in 1..Len(ids) |->
            [NodeById(ids[i]) EXCEPT !.Definition =
                IF NodeDescOf(ids[i]) # UNDEF THEN NodeDescOf(ids[i]) ELSE @]]

\* lines 2238-2243
edgesOutRaw ==
    LET found == SelectSeq(activeEdgeKeys,
                           LAMBDA key : FindEdgeIndex(edges, KeySrc(key), KeyTgt(key)) # 0)
    IN  [i \in 1..Len(found) |->
            edges[FindEdgeIndex(edges, KeySrc(found[i]), KeyTgt(found[i]))]]

\* lines 2245-2251; the cell of the number i + 1 holds its text
edgesOut ==
    [i \in 1..Len(edgesOutRaw) |->
        EdgeRow(ToStr(i), edgesOutRaw[i].source, edgesOutRaw[i].target,
                IF InNodeById(edgesOutRaw[i].source)
                   /\ NodeById(edgesOutRaw[i].source).FamilyID # ""
                THEN NodeById(edgesOutRaw[i].source).FamilyID ELSE "",
                IF edgesOutRaw[i].description # "" THEN edgesOutRaw[i].description
                ELSE "No description")]

\* lines 2253-2257; the date and the time of the clock are one value each
metaOut == <<MetaHeader, <<title, description, "date", "time">>>>

\* XLSX.writeFile (lines 2259-2265)
Written(file) == [kind |-> "file", head |-> "", lines |-> <<>>, file |-> file]

\* lines 2223-2227 with the flag cleared all the same
SaveBlockedClean ==
    /\ getLifecycleErrors # <<>>
    /\ io' = Alert("Cannot save. Please fix the following:", getLifecycleErrors)
    /\ dirty' = FALSE
    /\ UNCHANGED <<nodes, edges, lifecycleMode, title, description, activeEdgeKeys,
                   nodeDesc, filterMode, selectedName, selectedGroup,
                   legendActive, pending, fnArgs, fnRet, autosave>>

\* lines 2223-2227
SaveBlocked ==
    /\ getLifecycleErrors # <<>>
    /\ io' = Alert("Cannot save. Please fix the following:", getLifecycleErrors)
    /\ UNCHANGED <<nodes, edges, lifecycleMode, title, description, activeEdgeKeys,
                   nodeDesc, dirty, filterMode, selectedName, selectedGroup,
                   legendActive, pending, fnArgs, fnRet, autosave>>

\* lines 2229-2266
SaveWrites ==
    /\ getLifecycleErrors = <<>>
    /\ io' = Written(Workbook(TRUE, SheetNames, metaOut, nodesOut, edgesOut))
    /\ dirty' = FALSE
    /\ UNCHANGED <<nodes, edges, lifecycleMode, title, description, activeEdgeKeys,
                   nodeDesc, filterMode, selectedName, selectedGroup,
                   legendActive, pending, fnArgs, fnRet, autosave>>

\* the panel of the draft is rendered (lines 2346, 2402, 2422, 2666)
PanelShown == lifecycleMode # "none"

\* saveLifecycle, called while the panel is shown.  The Download button that calls
\* it is disabled while getLifecycleErrors() is non-empty (lines 2680-2688); the
\* function checks again by itself.
SaveLifecycle ==
    /\ PanelShown
    /\ \/ SaveBlocked
       \/ SaveWrites

-----------------------------------------------------------------------------
(* The other handlers of the editor                                        *)

\* startLifecycleCreate (lines 2028-2034); the guide overlay calls it in any mode
StartLifecycleCreate ==
    /\ lifecycleMode' = "create"
    /\ title' = ""
    /\ description' = ""
    /\ activeEdgeKeys' = <<>>
    /\ dirty' = TRUE
    /\ io' = NoIo
    /\ UNCHANGED <<nodes, edges, nodeDesc, filterMode, selectedName, selectedGroup,
                   legendActive, pending, fnArgs, fnRet, autosave>>

\* resetLifecycle (lines 2177-2184) with clearFilters (lines 1437-1451), behind the
\* Cancel button and its confirm (lines 2402-2412)
ResetLifecycle ==
    /\ PanelShown
    /\ lifecycleMode' = "none"
    /\ title' = ""
    /\ description' = ""
    /\ activeEdgeKeys' = <<>>
    /\ filterMode' = NULL
    /\ selectedName' = ""
    /\ selectedGroup' = ""
    /\ legendActive' = groups
    /\ dirty' = TRUE
    /\ io' = NoIo
    /\ UNCHANGED <<nodes, edges, nodeDesc, pending, fnArgs, fnRet, autosave>>

\* the title input (lines 2431-2439)
SetTitle(t) ==
    /\ PanelShown
    /\ title' = t
    /\ dirty' = TRUE
    /\ io' = NoIo
    /\ UNCHANGED <<nodes, edges, lifecycleMode, description, activeEdgeKeys, nodeDesc,
                   filterMode, selectedName, selectedGroup, legendActive, pending,
                   fnArgs, fnRet, autosave>>

\* the description input (lines 2440-2449)
SetDescription(d) ==
    /\ PanelShown
    /\ description' = d
    /\ dirty' = TRUE
    /\ io' = NoIo
    /\ UNCHANGED <<nodes, edges, lifecycleMode, title, activeEdgeKeys, nodeDesc,
                   filterMode, selectedName, selectedGroup, legendActive, pending,
                   fnArgs, fnRet, autosave>>

\* isNodeActive (lines 2510-2511) and canEditThisEdge (lines 2596-2597)
isNodeActive(id) == SetHas(activeNodeIds, id) \/ id = startNodeId

\* the checkbox without its disabled attribute: any listed edge can be toggled
ToggleEdgeUngated(i) ==
    LET key == Key(edges[i].source, edges[i].target)
    IN  /\ PanelShown
        /\ InNodeById(edges[i].source)
        /\ activeEdgeKeys' = IF SetHas(activeEdgeKeys, key) THEN SetDelete(activeEdgeKeys, key)
                             ELSE SetAdd(activeEdgeKeys, key)
        /\ dirty' = TRUE
        /\ io' = NoIo
        /\ UNCHANGED <<nodes, edges, lifecycleMode, title, description, nodeDesc,
                       filterMode, selectedName, selectedGroup, legendActive, pending,
                       fnArgs, fnRet, autosave>>

\* the checkbox of the edge edges[i] (lines 2613-2625)
ToggleEdge(i) ==
    LET key == Key(edges[i].source, edges[i].target)
    IN  /\ PanelShown
        /\ InNodeById(edges[i].source)
        /\ isNodeActive(edges[i].source)
        /\ activeEdgeKeys' = IF SetHas(activeEdgeKeys, key) THEN SetDelete(activeEdgeKeys, key)
                             ELSE SetAdd(activeEdgeKeys, key)
        /\ dirty' = TRUE
        /\ io' = NoIo
        /\ UNCHANGED <<nodes, edges, lifecycleMode, title, description, nodeDesc,
                       filterMode, selectedName, selectedGroup, legendActive, pending,
                       fnArgs, fnRet, autosave>>

\* the description input of the edge edges[i] (lines 2631-2649)
EditEdgeDescription(i, val) ==
    LET idx == FindEdgeIndex(edges, edges[i].source, edges[i].target)
    IN  /\ PanelShown
        /\ InNodeById(edges[i].source)
        /\ isNodeActive(edges[i].source)
        /\ edges' = [edges EXCEPT ![idx].description = val]
        /\ dirty' = TRUE
        /\ io' = NoIo
        /\ UNCHANGED <<nodes, lifecycleMode, title, description, activeEdgeKeys, nodeDesc,
                       filterMode, selectedName, selectedGroup, legendActive, pending,
                       fnArgs, fnRet, autosave>>

\* the description textarea of the node id (lines 2554-2563)
EditNodeDescription(id, v) ==
    /\ PanelShown
    /\ InNodeById(id)
    /\ isNodeActive(id)
    /\ nodeDesc' = [nodeDesc EXCEPT ![id] = v]
    /\ dirty' = TRUE
    /\ io' = NoIo
    /\ UNCHANGED <<nodes, edges, lifecycleMode, title, description, activeEdgeKeys,
                   filterMode, selectedName, selectedGroup, legendActive, pending,
                   fnArgs, fnRet, autosave>>

-----------------------------------------------------------------------------
(* Filters (App.tsx 1437-1582)                                             *)

\* nameToId[lname] (line 690; Object.fromEntries: the last row of a name wins), "" for none
NameToId(lname) ==
    IF \E i \in 1..Len(nodes) : toLowerCase(nodes[i].Name) = lname
    THEN nodes[CHOOSE i \in 1..Len(nodes) :
                   /\ toLowerCase(nodes[i].Name) = lname
                   /\ \A j \in (i + 1)..Len(nodes) : toLowerCase(nodes[j].Name) # lname].NameID
    ELSE ""

\* baseEdges (lines 991-993): the edges the network shows, in the order of the
\* vis DataSet built from them (lines 592-610)
baseEdges ==
    IF lifecycleMode = "none" THEN edges
    ELSE SelectSeq(edges, LAMBDA e : SetHas(activeEdgeKeys, Key(e.source, e.target)))

\* What applyDimStyles is given: the node kept for, keepNodes and keepEdges
Dimmed(id, keep) == [kind |-> "dim", head |-> id, lines |-> keep[1], file |-> keep[2]]

\* `for (const e of visEdges.get())` of applySelectByName (lines 1531-1538), from edge
\* i on; the ids of the catalog are strings, which String() leaves as they are
RECURSIVE byNameScanBothWays(_, _, _, _, _)
byNameScanBothWays(id, shown, i, keepNodes, keepEdges) ==
    IF i > Len(shown) THEN <<keepNodes, keepEdges>>
    ELSE LET from == shown[i].source
             to   == shown[i].target
         IN  IF from = id
             THEN byNameScanBothWays(id, shown, i + 1, SetAdd(keepNodes, to),
                                     SetAdd(keepEdges, shown[i].id))
             ELSE IF to = id
             THEN byNameScanBothWays(id, shown, i + 1, SetAdd(keepNodes, from),
                                     SetAdd(keepEdges, shown[i].id))
             ELSE byNameScanBothWays(id, shown, i + 1, keepNodes, keepEdges)

RECURSIVE byNameScan(_, _, _, _, _)
byNameScan(id, shown, i, keepNodes, keepEdges) ==
    IF i > Len(shown) THEN <<keepNodes, keepEdges>>
    ELSE LET from == shown[i].source
             to   == shown[i].target
         IN  IF from = id
             THEN byNameScan(id, shown, i + 1, SetAdd(keepNodes, to),
                             SetAdd(keepEdges, shown[i].id))
             ELSE byNameScan(id, shown, i + 1, keepNodes, keepEdges)

\* applySelectByName (lines 1510-1543), the network being built: a name no node has
\* returns at line 1521, before the dimming and before markDirty
ApplySelectByName(name) ==
    LET id == NameToId(toLowerCase(name))
    IN  /\ filterMode' = "id"
        /\ selectedName' = name
        /\ selectedGroup' = ""
        /\ legendActive' = groups
        /\ dirty' = IF id # "" THEN TRUE ELSE dirty
        /\ io' = IF id # "" THEN Dimmed(id, byNameScan(id, baseEdges, 1, <<id>>, <<>>))
                 ELSE NoIo
        /\ UNCHANGED <<nodes, edges, lifecycleMode, title, description, activeEdgeKeys,
                       nodeDesc, pending, fnArgs, fnRet, autosave>>

\* a.Name.localeCompare(b.Name) on the names of the model: the rank of a name in
\* the order of the locale
localeRank(name) ==
    CASE name = "Acquire" -> 1
      [] name = "Dispose" -> 2
      [] name = "Share" -> 3
      [] name = "Specify needs" -> 4
      [] name = "Use" -> 5
      [] OTHER -> 6

\* Array.prototype.sort by Name (stable): insertion of row n into a sorted list
RECURSIVE insertByName(_, _)
insertByName(n, sorted) ==
    IF sorted = <<>> THEN <<n>>
    ELSE IF localeRank(n.Name) < localeRank(Head(sorted).Name)
         THEN <<n>> \o sorted
         ELSE <<Head(sorted)>> \o insertByName(n, Tail(sorted))

RECURSIVE sortByName(_)
sortByName(list) ==
    IF list = <<>> THEN <<>>
    ELSE insertByName(list[Len(list)], sortByName(SubSeq(list, 1, Len(list) - 1)))

\* familyNodes (lines 1560-1562)
familyNodes(group) ==
    sortByName(SelectSeq(nodes, LAMBDA n : canonFam(n.Family) = group))

\* groupNodeIds (line 1564): new Set(familyNodes.map((n) => n.NameID))
groupNodeIds(group) ==
    NewSet([i \in 1..Len(familyNodes(group)) |-> familyNodes(group)[i].NameID])

\* `for (const e of visEdges.get())` of applySelectByGroup (lines 1568-1573), from
\* edge i on
RECURSIVE byGroupScanWithTargets(_, _, _, _, _)
byGroupScanWithTargets(ids, shown, i, keepNodes, keepEdges) ==
    IF i > Len(shown) THEN <<keepNodes, keepEdges>>
    ELSE IF SetHas(ids, shown[i].source)
         THEN byGroupScanWithTargets(ids, shown, i + 1, SetAdd(keepNodes, shown[i].target),
                                     SetAdd(keepEdges, shown[i].id))
         ELSE byGroupScanWithTargets(ids, shown, i + 1, keepNodes, keepEdges)

RECURSIVE byGroupScan(_, _, _, _, _)
byGroupScan(ids, shown, i, keepNodes, keepEdges) ==
    IF i > Len(shown) THEN <<keepNodes, keepEdges>>
    ELSE IF SetHas(ids, shown[i].source)
         THEN byGroupScan(ids, shown, i + 1, keepNodes, SetAdd(keepEdges, shown[i].id))
         ELSE byGroupScan(ids, shown, i + 1, keepNodes, keepEdges)

\* What applyDimStyles is given by applySelectByGroup
DimmedGroup(group, keep) ==
    [kind |-> "dimGroup", head |-> group, lines |-> keep[1], file |-> keep[2]]

\* applySelectByGroup (lines 1547-1582), the network being built
ApplySelectByGroup(group) ==
    /\ filterMode' = "group"
    /\ selectedGroup' = group
    /\ selectedName' = ""
    /\ legendActive' = <<group>>
    /\ dirty' = TRUE
    /\ io' = DimmedGroup(group, byGroupScan(groupNodeIds(group), baseEdges, 1,
                                            groupNodeIds(group), <<>>))
    /\ UNCHANGED <<nodes, edges, lifecycleMode, title, description, activeEdgeKeys,
                   nodeDesc, pending, fnArgs, fnRet, autosave>>

\* clearFilters (lines 1437-1451): clearDimStyles restores every style
ClearFilters ==
    /\ filterMode' = NULL
    /\ selectedName' = ""
    /\ selectedGroup' = ""
    /\ legendActive' = groups
    /\ dirty' = TRUE
    /\ io' = [NoIo EXCEPT !.kind = "undim"]
    /\ UNCHANGED <<nodes, edges, lifecycleMode, title, description, activeEdgeKeys,
                   nodeDesc, pending, fnArgs, fnRet, autosave>>

\* visibleFamilies (lines 848-857), for families that all have a rank
visibleFamilies ==
    IF lifecycleMode = "none" THEN groups
    ELSE SelectSeq(CANON_FAMILY_ORDER,
                   LAMBDA f : \E i \in 1..Len(nodes) :
                                  /\ SetHas(activeNodeIds, nodes[i].NameID)
                                  /\ canonFam(nodes[i].Family) = f)

\* the options of the select "Select by Name" (lines 2953-2962) and the empty one
NameOptions ==
    {""} \cup {nodes[i].Name : i \in {j \in 1..Len(nodes) :
                   lifecycleMode = "none" \/ SetHas(activeNodeIds, nodes[j].NameID)}}

\* the options of the select "Select by Group" (lines 2983-2986)
GroupOptions == {""} \cup Range(IF lifecycleMode = "none" THEN groups ELSE visibleFamilies)

\* onChange of the select "Select by Name" (lines 2948-2952): only the selection
PickName(name) ==
    /\ name \in NameOptions
    /\ selectedName' = name
    /\ io' = NoIo
    /\ UNCHANGED <<nodes, edges, lifecycleMode, title, description, activeEdgeKeys,
                   nodeDesc, dirty, filterMode, selectedGroup, legendActive, pending,
                   fnArgs, fnRet, autosave>>

\* onChange of the select "Select by Group" (lines 2978-2982): only the selection
PickGroup(group) ==
    /\ group \in GroupOptions
    /\ selectedGroup' = group
    /\ io' = NoIo
    /\ UNCHANGED <<nodes, edges, lifecycleMode, title, description, activeEdgeKeys,
                   nodeDesc, dirty, filterMode, selectedName, legendActive, pending,
                   fnArgs, fnRet, autosave>>

\* the button Apply of "Select by Name" (lines 2964-2970), disabled without a selection
ApplyName == selectedName # "" /\ ApplySelectByName(selectedName)

\* the button Apply of "Select by Group" (lines 2989-2995)
ApplyGroup == selectedGroup # "" /\ ApplySelectByGroup(selectedGroup)

\* a button of the legend (lines 3005-3017)
LegendClick(fam) ==
    /\ fam \in Range(IF lifecycleMode = "none" THEN groups ELSE visibleFamilies)
    /\ ApplySelectByGroup(fam)

-----------------------------------------------------------------------------
(* Snapshots: export, import and hydration (App.tsx 621-647, 922-976,      *)
(* 1963-2010, 2272-2307)                                                   *)

\* the fields of the component a snapshot is made of
EditorState ==
    [lifecycleMode |-> lifecycleMode, title |-> title, description |-> description,
     activeEdgeKeys |-> activeEdgeKeys, filterMode |-> filterMode,
     selectedName |-> selectedName, selectedGroup |-> selectedGroup,
     legendActive |-> legendActive, edges |-> edges, nodeDesc |-> nodeDesc]

\* the order of Object.entries over keys that are integers: ascending
NodeIdOrder == <<"1", "2", "3", "4", "5">>

\* snapshot (lines 2272-2307) of the fields st; shape tells an object from what a
\* JSON text may also hold (see NullValue, Misshapen)
snapshotOf(st) ==
    [shape |-> "object",
     lifecycleMode |-> st.lifecycleMode,
     title |-> st.title,
     description |-> st.description,
     activeEdgeKeys |-> st.activeEdgeKeys,
     filterMode |-> st.filterMode,
     selectedName |-> st.selectedName,
     selectedGroup |-> st.selectedGroup,
     legendActive |-> st.legendActive,
     edgeDescriptions |->
         [i \in 1..Len(st.edges) |->
             [source |-> st.edges[i].source, target |-> st.edges[i].target,
              description |-> st.edges[i].description]],
     nodeDescriptions |->
         LET ids == SelectSeq(NodeIdOrder, LAMBDA id : st.nodeDesc[id] # UNDEF)
         IN  [i \in 1..Len(ids) |-> [NameID |-> ids[i], Definition |-> st.nodeDesc[ids[i]]]]]

snapshot == snapshotOf(EditorState)

\* an object with the members of AppPersist (lines 620-632), all empty
EmptyPersist ==
    [shape |-> "object", lifecycleMode |-> "none", title |-> "", description |-> "",
     activeEdgeKeys |-> <<>>, filterMode |-> NULL, selectedName |-> "",
     selectedGroup |-> "", legendActive |-> <<>>, edgeDescriptions |-> <<>>,
     nodeDescriptions |-> <<>>]

\* the JSON text "null", and an object whose activeEdgeKeys is a number: reading a
\* member of the first and `new Set` of the second throw a TypeError
NullValue == [EmptyPersist EXCEPT !.shape = "null"]

Misshapen(mode, t, d) ==
    [EmptyPersist EXCEPT !.shape = "misshapen", !.lifecycleMode = mode, !.title = t,
                         !.description = d]

\* JSON.stringify of a value without undefined members, and a text that is no JSON
JSONstringify(v) == [wellFormed |-> TRUE, value |-> v]

NotJson == [wellFormed |-> FALSE, value |-> NullValue]

\* base64UrlEncode (lines 636-639) and a fragment base64UrlDecode throws on
base64UrlEncode(text) == [decodes |-> TRUE, text |-> text]

NotBase64 == [decodes |-> FALSE, text |-> NotJson]

\* window.location.hash: "" or "#state=" followed by a payload
NoHash == [state |-> FALSE, payload |-> NotBase64]

Hash(payload) == [state |-> TRUE, payload |-> payload]

\* localStorage.getItem(LS_KEY): null or a text
NoItem == [stored |-> FALSE, text |-> NotJson]

Item(text) == [stored |-> TRUE, text |-> text]

\* the merge of edgeDescriptions into the edges array (lines 933-939, 1994-2000)
RECURSIVE mergedDescriptions(_, _)
mergedDescriptions(list, ds) ==
    IF ds = <<>> THEN list
    ELSE LET d == ds[Len(ds)]
             m == mergedDescriptions(list, SubSeq(ds, 1, Len(ds) - 1))
             idx == FindEdgeIndex(m, d.source, d.target)
         IN  IF idx = 0 THEN m ELSE [m EXCEPT ![idx].description = d.description]

\* lines 941-947
RECURSIVE mergedNodeDesc(_)
mergedNodeDesc(ds) ==
    IF ds = <<>> THEN NoNodeDesc
    ELSE LET d == ds[Len(ds)]
             rest == mergedNodeDesc(SubSeq(ds, 1, Len(ds) - 1))
         IN  IF d.NameID # "" THEN [rest EXCEPT ![d.NameID] = d.Definition] ELSE rest

\* the setters applyState and importJSON call before `new Set(st.activeEdgeKeys)`
\* (lines 926-928, 1987-1989), applied to the fields cur; React keeps them queued
\* when that constructor throws
setTexts(cur, st) ==
    [cur EXCEPT !.lifecycleMode = st.lifecycleMode, !.title = st.title,
                !.description = st.description]

\* the setters of lines 929-940 and 1990-2000
setRest(cur, st) ==
    [cur EXCEPT !.activeEdgeKeys = NewSet(st.activeEdgeKeys),
                !.filterMode = st.filterMode,
                !.selectedName = st.selectedName,
                !.selectedGroup = st.selectedGroup,
                !.legendActive = NewSet(st.legendActive),
                !.edges = IF Len(st.edgeDescriptions) > 0
                          THEN mergedDescriptions(cur.edges, st.edgeDescriptions)
                          ELSE cur.edges]

\* lines 941-948
setNodeDesc(cur, st) ==
    [cur EXCEPT !.nodeDesc = IF Len(st.nodeDescriptions) > 0
                             THEN mergedNodeDesc(st.nodeDescriptions) ELSE cur.nodeDesc]

\* the body of importJSON's try (lines 1984-2001) on a parsed value: the fields it
\* leaves and whether it threw
imported(cur, st) ==
    CASE st.shape = "null" -> [state |-> cur, threw |-> TRUE]
      [] st.shape = "misshapen" -> [state |-> setTexts(cur, st), threw |-> TRUE]
      [] OTHER -> [state |-> setRest(setTexts(cur, st), st), threw |-> FALSE]

\* applyState (lines 925-950)
applyState(cur, st) ==
    CASE st.shape = "null" -> [state |-> cur, threw |-> TRUE]
      [] st.shape = "misshapen" -> [state |-> setTexts(cur, st), threw |-> TRUE]
      [] OTHER -> [state |-> setNodeDesc(setRest(setTexts(cur, st), st), st), threw |-> FALSE]

\* the state setters take effect
Becomes(st) ==
    /\ lifecycleMode' = st.lifecycleMode
    /\ title' = st.title
    /\ description' = st.description
    /\ activeEdgeKeys' = st.activeEdgeKeys
    /\ filterMode' = st.filterMode
    /\ selectedName' = st.selectedName
    /\ selectedGroup' = st.selectedGroup
    /\ legendActive' = st.legendActive
    /\ edges' = st.edges
    /\ nodeDesc' = st.nodeDesc

\* what the last export, importJSON or hydration wrote or read, and its outcome
Read(kind, head, file) == [kind |-> kind, head |-> head, lines |-> <<>>, file |-> file]

\* exportJSON without its markClean
ExportJSONKeepsDirty ==
    /\ io' = Read("export", "", JSONstringify(snapshot))
    /\ UNCHANGED <<nodes, edges, lifecycleMode, title, description, activeEdgeKeys,
                   nodeDesc, dirty, filterMode, selectedName, selectedGroup, legendActive,
                   pending, fnArgs, fnRet, autosave>>

\* exportJSON (lines 1963-1978), nothing thrown
ExportJSON ==
    /\ io' = Read("export", "", JSONstringify(snapshot))
    /\ dirty' = FALSE
    /\ UNCHANGED <<nodes, edges, lifecycleMode, title, description, activeEdgeKeys,
                   nodeDesc, filterMode, selectedName, selectedGroup, legendActive,
                   pending, fnArgs, fnRet, autosave>>

\* exportJSON (lines 1963-1978) when the browser throws on the Blob, the object URL
\* or the click: the catch alerts
ExportJSONFails ==
    /\ io' = Alert("JSON export failed.", <<>>)
    /\ UNCHANGED <<nodes, edges, lifecycleMode, title, description, activeEdgeKeys,
                   nodeDesc, dirty, filterMode, selectedName, selectedGroup, legendActive,
                   pending, fnArgs, fnRet, autosave>>

\* copyShareLink (lines 2012-2023) at the moment clipboard.writeText settles: when it
\* resolves the link is on the clipboard and the flag is cleared, when it rejects
\* the catch alerts; the link holds the snapshot of the call
CopyShareLink(resolves) ==
    /\ io' = IF resolves
             THEN Read("link", "Share link copied to clipboard!",
                       base64UrlEncode(JSONstringify(snapshot)))
             ELSE Alert("Could not copy link. Your browser may block clipboard access.",
                        <<>>)
    /\ dirty' = IF resolves THEN FALSE ELSE dirty
    /\ UNCHANGED <<nodes, edges, lifecycleMode, title, description, activeEdgeKeys,
                   nodeDesc, filterMode, selectedName, selectedGroup, legendActive,
                   pending, fnArgs, fnRet, autosave>>

\* importJSON (lines 1980-2010), reader.onload on the text of the file
ImportJSON(text) ==
    LET got == IF text.wellFormed THEN imported(EditorState, text.value)
               ELSE [state |-> EditorState, threw |-> TRUE]
    IN  /\ Becomes(got.state)
        /\ dirty' = IF got.threw THEN dirty ELSE FALSE
        /\ io' = Read("import", IF got.threw THEN "Invalid JSON file." ELSE "", text)
        /\ UNCHANGED <<nodes, pending, fnArgs, fnRet, autosave>>

\* the record of the CSV load (lines 859-872): the hydrate effect has not run yet
CsvLoaded == [kind |-> "csv", head |-> "", lines |-> <<>>, file |-> NoFile]

\* the hydrate effect (lines 922-976); it runs once, on the render after the CSV load
Hydrate(hash, item) ==
    LET fromHash == IF hash.state /\ hash.payload.decodes /\ hash.payload.text.wellFormed
                    THEN applyState(EditorState, hash.payload.text.value)
                    ELSE [state |-> EditorState, threw |-> TRUE]
        fromItem == IF item.stored /\ item.text.wellFormed
                    THEN applyState(fromHash.state, item.text.value)
                    ELSE [state |-> fromHash.state, threw |-> TRUE]
        final == IF ~fromHash.threw THEN fromHash.state
                 ELSE IF ~fromItem.threw THEN fromItem.state
                 ELSE [fromItem.state EXCEPT !.legendActive = groups]
    IN  /\ io.kind = "csv"
        /\ Becomes(final)
        /\ dirty' = IF fromHash.threw /\ fromItem.threw THEN dirty ELSE FALSE
        /\ io' = Read("hydrate",
                      IF ~fromHash.threw THEN "url"
                      ELSE IF ~fromItem.threw THEN "storage" ELSE "none",
                      [hash |-> hash, item |-> item])
        /\ UNCHANGED <<nodes, pending, fnArgs, fnRet, autosave>>

-----------------------------------------------------------------------------
(* Values of the variables a specification does not use                    *)

NoRet == [done |-> FALSE, value |-> <<>>]
NoArgs == [fn |-> "none"]

\* no timeout pending, nothing stored
NoAutosave == [timers |-> <<>>, deps |-> EmptyPersist, item |-> NoItem]

-----------------------------------------------------------------------------
(* SpecBfs: bfsReachable applied to every start and every iteration order  *)

MaxBfsEdges == 3

BfsIds == {"a", "b", "c"}

BfsKeys == {Key(s, t) : s \in BfsIds, t \in BfsIds}

InitBfs ==
    /\ nodes = <<>> /\ edges = <<>>
    /\ lifecycleMode = "none" /\ title = "" /\ description = ""
    /\ activeEdgeKeys = <<>> /\ nodeDesc = NoNodeDesc /\ dirty = FALSE
    /\ filterMode = NULL /\ selectedName = "" /\ selectedGroup = ""
    /\ legendActive = <<>> /\ pending = <<>> /\ io = NoIo
    /\ fnArgs \in [fn : {"bfsReachable"}, start : BfsIds \cup {""},
                   edgesSet : SeqsUpTo(BfsKeys, MaxBfsEdges)]
    /\ fnRet = NoRet /\ autosave = NoAutosave

BfsCall ==
    /\ fnArgs.fn = "bfsReachable"
    /\ ~fnRet.done
    /\ fnRet' = [done |-> TRUE, value |-> bfsReachable(fnArgs.start, fnArgs.edgesSet)]
    /\ UNCHANGED <<editorVars, fnArgs>>

NextBfs == BfsCall

SpecBfs == InitBfs /\ [][NextBfs]_vars

\* All iteration orders of a Set
Orders(S) == {p \in [1..Len(S) -> Range(S)] : NoDup(p)}

\* C1: bfsReachable returns exactly the closure of start under the active edges
\* followed source to target: start is included even without edges, nothing outside
\* the closure is included, an empty start gives the empty set, and every iteration
\* order of the same edges gives the same set.
C1_BfsExact ==
    fnRet.done =>
        LET E == Range(fnArgs.edgesSet)
            R == Range(fnRet.value)
        IN  /\ NoDup(fnRet.value)
            /\ R = Closure(fnArgs.start, E, BfsIds)
            /\ (fnArgs.start # "" => fnArgs.start \in R)
            /\ (fnArgs.start = "" => R = {})
            /\ \A p \in Orders(fnArgs.edgesSet) :
                   Range(bfsReachable(fnArgs.start, p)) = R

\* a two-hop path is followed, and an edge into the start is not followed backwards
C1_Witness ==
    /\ fnRet.done
    /\ fnArgs.start = "a"
    /\ fnArgs.edgesSet = <<Key("b", "c"), Key("c", "b"), Key("a", "b")>>
    /\ Range(fnRet.value) = {"a", "b", "c"}

-----------------------------------------------------------------------------
(* SpecValidate: the validator applied to every draft over every catalog   *)

MaxActive == 4

Titles == {"", " ", "My Flow"}

Descriptions == {"", " ", "About"}

BlankTexts == {"", " "}

CatalogKeys == {Key(edges[i].source, edges[i].target) : i \in 1..Len(edges)}

InitValidate ==
    /\ \E drop \in SUBSET {"1", "4", "5"} :
           /\ nodes = CatalogNodes(drop)
           /\ edges = CatalogEdges(drop, CyclicEdges)
    /\ lifecycleMode \in {"create", "edit"}
    /\ title \in Titles /\ description \in Descriptions
    /\ activeEdgeKeys \in SeqsUpTo(CatalogKeys, MaxActive)
    /\ nodeDesc = NoNodeDesc /\ dirty = TRUE
    /\ filterMode = NULL /\ selectedName = "" /\ selectedGroup = ""
    /\ legendActive = groups /\ pending = <<>> /\ io = NoIo
    /\ fnArgs = NoArgs /\ fnRet = NoRet /\ autosave = NoAutosave

NextValidate == ValidateClick

SpecValidate == InitValidate /\ [][NextValidate]_vars

\* what the claims speak of, stated on the catalog and the activation set
CatalogIds == {nodes[i].NameID : i \in 1..Len(nodes)}

HasNode(lname) == \E i \in 1..Len(nodes) : toLowerCase(nodes[i].Name) = lname

IdOf(lname) == (CHOOSE n \in Range(nodes) : toLowerCase(n.Name) = lname).NameID

NameOf(id) == (CHOOSE n \in Range(nodes) : n.NameID = id).Name

Active == Range(activeEdgeKeys)

Reach == Closure(IdOf("specify needs"), Active, CatalogIds)

Leaf(n) == ~\E k \in Active : KeySrc(k) = n

LegalEnd(n) == n = IdOf("dispose") \/ (HasNode("share") /\ n = IdOf("share"))

IllegalEndpoints == {n \in Reach : Leaf(n) /\ ~LegalEnd(n)}

DanglingSources == {KeySrc(k) : k \in {a \in Active : KeySrc(a) \notin Reach}}

Validated ==
    /\ io.kind = "alert"
    /\ io.head \in {"Lifecycle valid. You can now Save.", "Validation failed:"}

\* C2: the validator's result is empty exactly when title and description are
\* non-blank, the start and Dispose nodes exist, Dispose is reachable, every reachable
\* leaf is Dispose or Share, and the source of every active edge is reachable.
C2_EmptyIffValid ==
    Validated =>
        ((io.lines = <<>>) <=>
            /\ title \notin BlankTexts
            /\ description \notin BlankTexts
            /\ HasNode("specify needs") /\ HasNode("dispose")
            /\ IdOf("dispose") \in Reach
            /\ IllegalEndpoints = {}
            /\ DanglingSources = {})

\* scenario 1 of the spec, with the intermediate node Use: both leaves are legal
C2_Witness ==
    /\ Validated
    /\ io.lines = <<>>
    /\ Active = {Key("1", "2"), Key("2", "3"), Key("3", "5"), Key("2", "4")}

\* C3: with start and Dispose present, the result holds an illegal-endpoint error
\* naming n exactly for the reachable nodes n without active outgoing edge other than
\* Dispose and Share.
C3_EndpointLegality ==
    (Validated /\ HasNode("specify needs") /\ HasNode("dispose")) =>
        /\ \A n \in CatalogIds :
               ErrEndpoint(NameOf(n)) \in Range(io.lines) <=> n \in IllegalEndpoints
        /\ \A e \in Range(io.lines) :
               e.kind = ErrEndpoint("").kind => \E n \in CatalogIds : e.name = NameOf(n)

\* Use is an illegal endpoint while Share, a leaf too, is not reported
C3_Witness ==
    /\ Validated
    /\ Active = {Key("1", "2"), Key("2", "3"), Key("2", "4")}
    /\ HasNode("share") /\ HasNode("dispose")
    /\ ErrEndpoint("Use") \in Range(io.lines)
    /\ ErrEndpoint("Share") \notin Range(io.lines)

\* C4: with start and Dispose present, the result holds a dangling-source error naming
\* n exactly for the sources n of active edges that are not reachable.
C4_DanglingSource ==
    (Validated /\ HasNode("specify needs") /\ HasNode("dispose")) =>
        /\ \A n \in CatalogIds :
               ErrDangling(NameOf(n)) \in Range(io.lines) <=> n \in DanglingSources
        /\ \A e \in Range(io.lines) :
               e.kind = ErrDangling("").kind => \E n \in CatalogIds : e.name = NameOf(n)

\* Use -> Dispose stayed active after Acquire -> Use was switched off
C4_Witness ==
    /\ Validated
    /\ Active = {Key("1", "2"), Key("3", "5"), Key("2", "4")}
    /\ HasNode("dispose")
    /\ ErrDangling("Use") \in Range(io.lines)
    /\ ErrDangling("Acquire") \notin Range(io.lines)

\* C5: every violated rule has its error in the one result; with only
\* Specify needs -> Acquire active the result holds both the Dispose-reachability
\* error and the illegal-endpoint error naming Acquire.
C5_ErrorsCollected ==
    Validated =>
        /\ (title \in BlankTexts => ErrTitle \in Range(io.lines))
        /\ (description \in BlankTexts => ErrDescription \in Range(io.lines))
        /\ (HasNode("specify needs") /\ HasNode("dispose")) =>
              /\ (IdOf("dispose") \notin Reach => ErrDisposeUnreachable \in Range(io.lines))
              /\ \A n \in IllegalEndpoints : ErrEndpoint(NameOf(n)) \in Range(io.lines)
              /\ \A n \in DanglingSources : ErrDangling(NameOf(n)) \in Range(io.lines)
              /\ (activeEdgeKeys = <<Key("1", "2")>> =>
                     /\ ErrDisposeUnreachable \in Range(io.lines)
                     /\ ErrEndpoint("Acquire") \in Range(io.lines))

\* all five rules are violated at once and reported together
C5_Witness ==
    /\ Validated
    /\ title \in BlankTexts /\ description \in BlankTexts
    /\ Active = {Key("1", "2"), Key("3", "5")}
    /\ {ErrTitle, ErrDescription, ErrDisposeUnreachable, ErrEndpoint("Acquire"),
        ErrDangling("Use")} \subseteq Range(io.lines)

\* C6 (as amended): without the start node or without Dispose the result holds the
\* missing-node errors and, besides them, only the title and description errors
\* collected before: no reachability, endpoint or dangling-source error.
C6_AbortKeepsTextErrors ==
    (Validated /\ ~(HasNode("specify needs") /\ HasNode("dispose"))) =>
        /\ Range(io.lines) \subseteq {ErrTitle, ErrDescription, ErrNoStart, ErrNoDispose}
        /\ (ErrNoStart \in Range(io.lines) <=> ~HasNode("specify needs"))
        /\ (ErrNoDispose \in Range(io.lines) <=> ~HasNode("dispose"))
        /\ (ErrTitle \in Range(io.lines) <=> title \in BlankTexts)
        /\ (ErrDescription \in Range(io.lines) <=> description \in BlankTexts)

\* C6 (as claimed): without the start node or without Dispose the result holds only
\* the missing-node errors.
C6_OnlyMissingNodeErrors ==
    (Validated /\ ~(HasNode("specify needs") /\ HasNode("dispose"))) =>
        Range(io.lines) \subseteq {ErrNoStart, ErrNoDispose}

\* Dispose is missing, Acquire would be an illegal endpoint, the title is blank
C6_Witness ==
    /\ Validated
    /\ HasNode("specify needs") /\ ~HasNode("dispose")
    /\ activeEdgeKeys = <<Key("1", "2")>>
    /\ io.lines = <<ErrTitle, ErrNoDispose>>

-----------------------------------------------------------------------------
(* Spec: the editor, from the state after the catalog is loaded            *)

\* the catalogs of a session: the whole one, and one without the node Acquire
SessionDrops == {{}, {"2"}}

EditorTitles == {"", "My Flow"}

EditorDescriptions == {"About"}

\* the edge and the node whose descriptions the user edits, and what is typed
EditedPairs == {Key("2", "3")}

EdgeTexts == {"edited"}

EditedNodes == {"3"}

NodeTexts == {"note"}

UnreadableFile == Workbook(FALSE, {}, <<>>, <<>>, <<>>)

NoEdgesSheetFile == Workbook(TRUE, {"Metadata", "Nodes"}, <<MetaHeader>>, <<>>, <<>>)

ForeignFile ==
    Workbook(TRUE, SheetNames, <<MetaHeader, <<"Other", "About", "date", "time">>>>,
             <<NodeRow("9", "Nine", "LEVERAGING", "F5", "")>>,
             <<EdgeRow("1", "5", "1", "F6", "")>>)

GoodFile ==
    Workbook(TRUE, SheetNames, <<MetaHeader, <<" My Flow ", "About", "date", "time">>>>,
             <<NodeRow("3.0", "Use", "LEVERAGING", "F5", "custom")>>,
             <<EdgeRow("", "2", "3.0", "F2", "imported"), EdgeRow("", "3", "5", "F5", "")>>)

BareFile == Workbook(TRUE, SheetNames, <<MetaHeader>>, <<>>, <<>>)

SessionWorkbooks == {UnreadableFile, NoEdgesSheetFile, ForeignFile, GoodFile, BareFile}

\* the state after the CSV load (lines 859-872) and the hydration with nothing
\* saved (lines 922-976)
Fresh(drop) ==
    /\ nodes = CatalogNodes(drop)
    /\ edges = CatalogEdges(drop, MasterEdges)
    /\ lifecycleMode = "none" /\ title = "" /\ description = ""
    /\ activeEdgeKeys = <<>> /\ nodeDesc = NoNodeDesc /\ dirty = FALSE
    /\ filterMode = NULL /\ selectedName = "" /\ selectedGroup = ""
    /\ legendActive = groups /\ pending = <<>> /\ io = NoIo
    /\ fnArgs = NoArgs /\ fnRet = NoRet /\ autosave = NoAutosave

Init == \E drop \in SessionDrops : Fresh(drop)

Next ==
    \/ StartLifecycleCreate
    \/ ResetLifecycle
    \/ \E t \in EditorTitles : SetTitle(t)
    \/ \E d \in EditorDescriptions : SetDescription(d)
    \/ \E i \in 1..Len(edges) : ToggleEdge(i)
    \/ \E i \in 1..Len(edges), val \in EdgeTexts :
           /\ Key(edges[i].source, edges[i].target) \in EditedPairs
           /\ EditEdgeDescription(i, val)
    \/ \E id \in EditedNodes, v \in NodeTexts : EditNodeDescription(id, v)
    \/ ValidateClick
    \/ SaveLifecycle
    \/ LoadBegin
    \/ \E i \in 1..Len(pending), file \in SessionWorkbooks : LoadFinish(i, file)

Spec == Init /\ [][Next]_vars

CannotSave == "Cannot save. Please fix the following:"

\* C7: Save is gated on validation.  A step of saveLifecycle writes a workbook only
\* from a draft for which getLifecycleErrors is empty, and then the dirty flag is
\* cleared; a step that finds errors writes nothing (it alerts), leaves title,
\* description, activation set, mode and dirty flag as they were, and the panel
\* with its inputs stays shown.
C7_SaveGated ==
    [][/\ io'.kind = "file" => getLifecycleErrors = <<>> /\ ~dirty'
       /\ (io'.kind = "alert" /\ io'.head = CannotSave) =>
              /\ getLifecycleErrors # <<>>
              /\ UNCHANGED <<title, description, activeEdgeKeys, lifecycleMode, dirty>>
              /\ PanelShown']_vars

\* a dirty draft with active edges whose save was refused
C7_Witness ==
    /\ io.kind = "alert" /\ io.head = CannotSave
    /\ Len(io.lines) > 0
    /\ dirty /\ lifecycleMode = "create"
    /\ title = "My Flow" /\ Len(activeEdgeKeys) >= 2

\* C9: Workbook import is all-or-nothing.  A step of handleLifecycleLoad that fails
\* (unreadable file, missing sheet, or foreign-key problems) leaves lifecycle mode,
\* title, description, activation set, edge descriptions, node description
\* overrides and the dirty flag exactly as they were.
C9_AllOrNothing ==
    [][(io'.kind = "load" /\ io'.head # "") =>
           UNCHANGED <<lifecycleMode, title, description, activeEdgeKeys, edges,
                       nodeDesc, dirty>>]_vars

\* an import refused for foreign keys while a draft with content was open
C9_Witness ==
    /\ io.kind = "load" /\ io.head = "Import failed:"
    /\ lifecycleMode = "create" /\ title = "My Flow"
    /\ Len(activeEdgeKeys) >= 2
    /\ nodeDesc["3"] = "note"
    /\ dirty

-----------------------------------------------------------------------------
(* SpecLoad: handleLifecycleLoad on every workbook of a bounded universe    *)

MaxNodeRows == 2

MaxEdgeRows == 2

LoadMetas ==
    {<<MetaHeader>>,
     <<MetaHeader, <<" My Flow ", "About", "date", "time">>>>,
     <<MetaHeader, <<"", " ", "date", "time">>>>}

LoadNodeRows ==
    {NodeRow("3.0", "Use", "LEVERAGING", "F5", "custom"),
     NodeRow("4", "Share", "LEVERAGING", "F5", "def share"),
     NodeRow("9", "Nine", "LEVERAGING", "F5", ""),
     NodeRow("", "", "", "", "")}

LoadEdgeRows ==
    {EdgeRow("", "1", "2", "F1", ""),
     EdgeRow("", "2", "3.0", "F2", "imported"),
     EdgeRow("", "2", "4", "F2", " "),
     EdgeRow("7", "5", "1", "F6", ""),
     EdgeRow("", "9", "2", "", "")}

LoadWorkbooks ==
    {UnreadableFile, NoEdgesSheetFile}
        \cup {Workbook(TRUE, SheetNames, m, ns, es) :
                  m \in LoadMetas,
                  ns \in UNION {[1..n -> LoadNodeRows] : n \in 0..MaxNodeRows},
                  es \in UNION {[1..n -> LoadEdgeRows] : n \in 0..MaxEdgeRows}}

\* a draft of the editor: Start, title and description typed, four edges ticked,
\* the descriptions of Acquire -> Use and of Use edited
Draft ==
    /\ nodes = MasterNodes
    /\ edges = [MasterEdges EXCEPT ![2].description = "edited"]
    /\ lifecycleMode = "create" /\ title = "My Flow" /\ description = "About"
    /\ activeEdgeKeys = <<Key("1", "2"), Key("2", "3"), Key("3", "5"), Key("2", "4")>>
    /\ nodeDesc = [NoNodeDesc EXCEPT !["3"] = "note"]
    /\ dirty = TRUE
    /\ filterMode = NULL /\ selectedName = "" /\ selectedGroup = ""
    /\ legendActive = groups /\ pending = <<>> /\ io = NoIo
    /\ fnArgs = NoArgs /\ fnRet = NoRet /\ autosave = NoAutosave

\* a catalog whose edges lack Specify needs -> Acquire
FreshUnanchored ==
    /\ nodes = MasterNodes
    /\ edges = Tail(MasterEdges)
    /\ lifecycleMode = "none" /\ title = "" /\ description = ""
    /\ activeEdgeKeys = <<>> /\ nodeDesc = NoNodeDesc /\ dirty = FALSE
    /\ filterMode = NULL /\ selectedName = "" /\ selectedGroup = ""
    /\ legendActive = groups /\ pending = <<>> /\ io = NoIo
    /\ fnArgs = NoArgs /\ fnRet = NoRet /\ autosave = NoAutosave

InitLoad ==
    \/ \E drop \in SessionDrops : Fresh(drop)
    \/ FreshUnanchored
    \/ Draft

NextLoad ==
    \/ LoadBegin
    \/ \E i \in 1..Len(pending), file \in LoadWorkbooks : LoadFinish(i, file)

SpecLoad == InitLoad /\ [][NextLoad]_vars

\* the last step was a handleLifecycleLoad that got to read the three sheets
Parsed == io.kind = "load" /\ io.file.readable /\ io.file.sheets = SheetNames

\* the ids and the pairs a row of the workbook stands for, as text without ".0"
RowId(r) == stripDot0(toText(r.NameID))

RowPair(r) == Key(stripDot0(toText(r.source)), stripDot0(toText(r.target)))

CatalogPairs == {Key(edges[i].source, edges[i].target) : i \in 1..Len(edges)}

AnchorPair == Key(startNodeId, FindIdByName("acquire"))

Anchored == startNodeId # "" /\ FindIdByName("acquire") # ""

\* the rows of the workbook that break a foreign key, in the order of the sheet
OffendingNodeRows ==
    SelectSeq(io.file.Nodes, LAMBDA r : RowId(r) \notin CatalogIds)

OffendingEdgeRows ==
    SelectSeq(io.file.Edges, LAMBDA r : RowPair(r) \notin CatalogPairs)

NodeLines == SelectSeq(io.lines, LAMBDA l : l.kind = ProblemNode("").kind)

EdgeLines == SelectSeq(io.lines, LAMBDA l : l.kind = ProblemEdge(<<>>).kind)

\* C8: Foreign-key strictness.  A workbook whose three sheets were read and that has
\* a node row whose id is no catalog NameID, or an edge row whose pair is no catalog
\* pair, is rejected, and the list reported has one entry for every offending node
\* row and one for every offending edge row, in the order of the rows; the one entry
\* it may have beyond these is for the pair Specify needs -> Acquire.
C8_ForeignKeysExhaustive ==
    (Parsed /\ (OffendingNodeRows # <<>> \/ OffendingEdgeRows # <<>>)) =>
        /\ io.head = "Import failed:"
        /\ Len(NodeLines) = Len(OffendingNodeRows)
        /\ \A i \in 1..Len(OffendingNodeRows) :
               NodeLines[i].name =
                   IF RowId(OffendingNodeRows[i]) = "" THEN <<"(missing)">>
                   ELSE <<RowId(OffendingNodeRows[i])>>
        /\ Len(EdgeLines) \in {Len(OffendingEdgeRows), Len(OffendingEdgeRows) + 1}
        /\ \A i \in 1..Len(OffendingEdgeRows) :
               EdgeLines[i].name = RowPair(OffendingEdgeRows[i])
        /\ Len(EdgeLines) > Len(OffendingEdgeRows) =>
               EdgeLines[Len(EdgeLines)].name = AnchorPair
        /\ io.lines = NodeLines \o EdgeLines

\* two offending node rows and two offending edge rows, four entries reported
C8_Witness ==
    /\ Parsed
    /\ Len(OffendingNodeRows) = 2 /\ Len(OffendingEdgeRows) = 2
    /\ OffendingNodeRows[1] # OffendingNodeRows[2]
    /\ OffendingEdgeRows[1] # OffendingEdgeRows[2]
    /\ Len(io.lines) = 4

ImportedPairs == {RowPair(io.file.Edges[i]) : i \in 1..Len(io.file.Edges)}

Succeeded == Parsed /\ io.head = ""

\* the first two cells of the data row of Metadata as text, "" without that row
MetaCell(k) ==
    IF Len(io.file.Metadata) >= 2 /\ Len(io.file.Metadata[2]) >= k
    THEN toText(io.file.Metadata[2][k]) ELSE ""

\* C10: On a successful import the activation set is replaced wholesale: it is the
\* set of the pairs of the imported edge rows together with the pair Specify needs ->
\* Acquire when the catalog has both nodes, and nothing else; the mode is 'edit';
\* title and description are the trimmed text of the Metadata data row ("" when absent).
C10_ReplacedByImportedAndAnchor ==
    Succeeded =>
        /\ Range(activeEdgeKeys) =
               ImportedPairs \cup (IF Anchored THEN {AnchorPair} ELSE {})
        /\ NoDup(activeEdgeKeys)
        /\ lifecycleMode = "edit"
        /\ title = MetaCell(1) /\ description = MetaCell(2)

\* C10 as stated: the activation set is exactly the pairs of the imported edge rows
C10_ExactlyImportedPairs ==
    Succeeded =>
        /\ Range(activeEdgeKeys) = ImportedPairs
        /\ lifecycleMode = "edit"
        /\ title = MetaCell(1) /\ description = MetaCell(2)

\* an import of the rows Acquire -> Use and Acquire -> Share with a Metadata row
\* succeeded: the activation is these two pairs and the anchor pair
C10_Witness ==
    /\ Succeeded
    /\ ImportedPairs = {Key("2", "3"), Key("2", "4")}
    /\ Len(activeEdgeKeys) = 3
    /\ title = "My Flow"
    /\ Key("3", "5") \notin Range(activeEdgeKeys)

-----------------------------------------------------------------------------
(* SpecRoundTrip: a draft is saved and the workbook written is loaded again *)

MaxDraftEdges == 3

\* the catalog with a second edge out of Specify needs, to Use
BypassEdges == Append(MasterEdges, EdgeRow("5", "1", "3", "F1", ""))

RoundTripCatalogs == {MasterEdges, BypassEdges, Tail(BypassEdges)}

RoundTripTitles == {"", "My Flow", " My Flow "}

\* the workbook saveLifecycle writes from the current state
SavedFile == Workbook(TRUE, SheetNames, metaOut, nodesOut, edgesOut)

InitRoundTrip ==
    /\ nodes = MasterNodes
    /\ edges \in RoundTripCatalogs
    /\ lifecycleMode \in {"create", "edit"}
    /\ title \in RoundTripTitles /\ description = "About"
    /\ activeEdgeKeys \in SeqsUpTo(CatalogPairs, MaxDraftEdges)
    /\ nodeDesc \in {NoNodeDesc, [NoNodeDesc EXCEPT !["3"] = "note"]}
    /\ dirty = TRUE
    /\ filterMode = NULL /\ selectedName = "" /\ selectedGroup = ""
    /\ legendActive = groups /\ pending = <<>> /\ io = NoIo
    /\ fnArgs = NoArgs /\ fnRet = NoRet /\ autosave = NoAutosave

\* the draft is saved; then, with nothing edited since (the flag is still clean),
\* the file written is chosen in the file input, or a file that cannot be read
NextRoundTrip ==
    \/ SaveLifecycle
    \/ ~dirty /\ LoadBegin
    \/ \E i \in 1..Len(pending), file \in {SavedFile, UnreadableFile} :
           ~dirty /\ LoadFinish(i, file)

SpecRoundTrip == InitRoundTrip /\ [][NextRoundTrip]_vars

\* C11: Round trip through the workbook.  Loading the workbook saved from a draft
\* that the validator accepts and that has active edges gives mode 'edit', the
\* title and description of the draft, its activation set with no edge added or
\* lost, and a draft the validator accepts again.
C11_WorkbookRoundTrip ==
    [][(/\ io'.kind = "load" /\ io'.file = SavedFile
        /\ ~dirty /\ getLifecycleErrors = <<>> /\ activeEdgeKeys # <<>>) =>
           /\ io'.head = ""
           /\ lifecycleMode' = "edit"
           /\ title' = title /\ description' = description
           /\ Range(activeEdgeKeys') = Range(activeEdgeKeys)
           /\ getLifecycleErrors' = <<>>]_vars

-----------------------------------------------------------------------------
(* SpecPersist: hydration, then snapshots exported and imported            *)

DraftState ==
    [lifecycleMode |-> "create", title |-> "My Flow", description |-> "About",
     activeEdgeKeys |-> <<Key("1", "2"), Key("2", "3"), Key("3", "5"), Key("2", "4")>>,
     filterMode |-> NULL, selectedName |-> "", selectedGroup |-> "",
     legendActive |-> <<"INITIATION", "ACQUISITION", "LEVERAGING", "DISPOSITION">>,
     edges |-> [MasterEdges EXCEPT ![2].description = "edited"],
     nodeDesc |-> [NoNodeDesc EXCEPT !["3"] = "note"]]

\* the fresh state with the node Use selected in the by-node filter
FilteredState ==
    [lifecycleMode |-> "none", title |-> "", description |-> "",
     activeEdgeKeys |-> <<>>,
     filterMode |-> "id", selectedName |-> "Use", selectedGroup |-> "",
     legendActive |-> <<"INITIATION", "ACQUISITION", "LEVERAGING", "DISPOSITION">>,
     edges |-> MasterEdges, nodeDesc |-> NoNodeDesc]

PersistStates == {DraftState, FilteredState}

\* a snapshot whose one active key is no pair of the catalog
ForeignPersist == [snapshotOf(FilteredState) EXCEPT !.activeEdgeKeys = <<Key("9", "1")>>]

JsonTexts ==
    {JSONstringify(snapshotOf(st)) : st \in PersistStates}
        \cup {NotJson, JSONstringify(NullValue),
              JSONstringify(Misshapen("edit", "Other", "About")),
              JSONstringify(ForeignPersist)}

HashValues == {NoHash, Hash(NotBase64)} \cup {Hash(base64UrlEncode(t)) : t \in JsonTexts}

ItemValues == {NoItem} \cup {Item(t) : t \in JsonTexts}

InitPersist ==
    /\ nodes = MasterNodes
    /\ edges = MasterEdges
    /\ lifecycleMode = "none" /\ title = "" /\ description = ""
    /\ activeEdgeKeys = <<>> /\ nodeDesc = NoNodeDesc /\ dirty = FALSE
    /\ filterMode = NULL /\ selectedName = "" /\ selectedGroup = ""
    /\ legendActive = groups /\ pending = <<>> /\ io = CsvLoaded
    /\ fnArgs = NoArgs /\ fnRet = NoRet /\ autosave = NoAutosave

Hydrated == io.kind # "csv"

NextPersist ==
    \/ \E hash \in HashValues, item \in ItemValues : Hydrate(hash, item)
    \/ Hydrated /\ ExportJSON
    \/ \E text \in JsonTexts : Hydrated /\ ImportJSON(text)
    \/ Hydrated /\ StartLifecycleCreate
    \/ Hydrated /\ ResetLifecycle
    \/ \E i \in 1..Len(edges) : Hydrated /\ ToggleEdge(i)
    \/ \E id \in EditedNodes, v \in NodeTexts : Hydrated /\ EditNodeDescription(id, v)
    \/ Hydrated /\ ApplySelectByName("Use")

SpecPersist == InitPersist /\ [][NextPersist]_vars

\* the text of the snapshot the last import or hydration applied is the one of st
AppliedSnapshotOf(st) ==
    \/ io.kind = "import" /\ io.file = JSONstringify(snapshotOf(st))
    \/ /\ io.kind = "hydrate" /\ io.head = "url"
       /\ io.file.hash.payload.text = JSONstringify(snapshotOf(st))
    \/ /\ io.kind = "hydrate" /\ io.head = "storage"
       /\ io.file.item.text = JSONstringify(snapshotOf(st))

\* C12: Round trip through the snapshot.  Whatever the editor held before, applying
\* the snapshot exported from a state st, by importJSON or by hydration, restores
\* mode, title, description, activation set, filter mode, selected name, selected
\* group, legend set, edge descriptions and node description overrides of st.
C12_SnapshotRoundTrip ==
    \A st \in PersistStates : AppliedSnapshotOf(st) => EditorState = st

\* C13: Every key of the activation set is the pair of an edge of the catalog.
C13_ActiveKeysInCatalog == Range(activeEdgeKeys) \subseteq CatalogPairs

\* the fragment, and the stored item, hold the text of a snapshot
HashGood ==
    /\ io.file.hash.state /\ io.file.hash.payload.decodes
    /\ io.file.hash.payload.text.wellFormed
    /\ io.file.hash.payload.text.value.shape = "object"

ItemGood ==
    /\ io.file.item.stored /\ io.file.item.text.wellFormed
    /\ io.file.item.text.value.shape = "object"

\* the fields a snapshot value v gives the editor (no override kept from before:
\* hydration starts from none)
Restores(v) ==
    /\ lifecycleMode = v.lifecycleMode /\ title = v.title /\ description = v.description
    /\ activeEdgeKeys = v.activeEdgeKeys /\ filterMode = v.filterMode
    /\ selectedName = v.selectedName /\ selectedGroup = v.selectedGroup
    /\ legendActive = v.legendActive

\* C18: Hydration falls back instead of failing.  A fragment that holds a snapshot
\* is applied; else the stored snapshot is, if there is one and it is sound; else
\* the state is the empty initial one (mode 'none', nothing active, legend = all
\* groups).  A corrupt source leaves no trace.
C18_HydrationFallsBack ==
    io.kind = "hydrate" =>
        IF HashGood THEN Restores(io.file.hash.payload.text.value)
        ELSE IF ItemGood THEN Restores(io.file.item.text.value)
        ELSE /\ lifecycleMode = "none" /\ title = "" /\ description = ""
             /\ activeEdgeKeys = <<>> /\ legendActive = groups
             /\ filterMode = NULL /\ nodeDesc = NoNodeDesc

-----------------------------------------------------------------------------
(* SpecLoad, continued: the auto-heal and the node overrides               *)

\* the ids of the node rows handleLifecycleLoad works with after the auto-heal
ImportedNodeIds ==
    {healedNodes(parseNodes(io.file.Nodes))[i].NameID :
         i \in 1..Len(healedNodes(parseNodes(io.file.Nodes)))}

ListedNodeIds == {RowId(io.file.Nodes[i]) : i \in 1..Len(io.file.Nodes)}

C15_LoadableStaysLoadable ==
    (Parsed /\ OffendingNodeRows = <<>> /\ OffendingEdgeRows = <<>>) => io.head = ""

\* C17: After a successful import a node has a description override only if a row
\* of the Nodes sheet gives it a Definition that is non-empty and differs from the
\* Definition of the catalog.
C17_OverridesOnlyWhenDifferent ==
    Succeeded =>
        \A id \in CatalogIds :
            nodeDesc[id] # UNDEF =>
                \E i \in 1..Len(io.file.Nodes) :
                    /\ RowId(io.file.Nodes[i]) = id
                    /\ toText(io.file.Nodes[i].Definition) # ""
                    /\ toText(io.file.Nodes[i].Definition) # FindNode(id).Definition

-----------------------------------------------------------------------------
(* SpecSave: saveLifecycle on drafts of every activation                   *)

MaxSavedEdges == 3

\* two pairs no edge of the catalog has (an activation set takes them from a
\* snapshot: importJSON and applyState do not check the keys)
ForeignPairs == {Key("2", "9"), Key("9", "5")}

InitSave ==
    /\ nodes = MasterNodes
    /\ edges \in {MasterEdges, [MasterEdges EXCEPT ![2].description = "edited"]}
    /\ lifecycleMode = "edit"
    /\ title = "My Flow" /\ description \in {"About", ""}
    /\ activeEdgeKeys \in SeqsUpTo(CatalogPairs \cup ForeignPairs, MaxSavedEdges)
    /\ nodeDesc \in {NoNodeDesc, [NoNodeDesc EXCEPT !["3"] = "note"],
                     [NoNodeDesc EXCEPT !["5"] = ""]}
    /\ dirty \in BOOLEAN
    /\ filterMode = NULL /\ selectedName = "" /\ selectedGroup = ""
    /\ legendActive = groups /\ pending = <<>> /\ io = NoIo
    /\ fnArgs = NoArgs /\ fnRet = NoRet /\ autosave = NoAutosave

NextSave == SaveLifecycle

SpecSave == InitSave /\ [][NextSave]_vars

\* the rows of the two sheets of the workbook written
OutNodes == io.file.Nodes

OutEdges == io.file.Edges

OutPairs == {Key(OutEdges[i].source, OutEdges[i].target) : i \in 1..Len(OutEdges)}

\* the reachable set of the draft, over the ids of the catalog and of the keys
DraftReach ==
    Closure(startNodeId, Active,
            CatalogIds \cup {KeySrc(k) : k \in Active} \cup {KeyTgt(k) : k \in Active})

\* C16: Exported workbook content.  The Nodes sheet written has exactly one row per
\* node of the reachable set, with the override of the node as Definition when there
\* is one and else the Definition of the catalog; the Edges sheet has exactly one row
\* per active key, numbered 1..N, with the FamilyID of the source node as group.
C16_RowPerNodeAndKey ==
    io.kind = "file" =>
        /\ {OutNodes[i].NameID : i \in 1..Len(OutNodes)} = DraftReach
        /\ Len(OutNodes) = Cardinality(DraftReach)
        /\ OutPairs = Active
        /\ Len(OutEdges) = Cardinality(Active)
        /\ \A i \in 1..Len(OutNodes) :
               LET id == OutNodes[i].NameID
               IN  OutNodes[i].Definition =
                       IF nodeDesc[id] # UNDEF THEN nodeDesc[id]
                       ELSE FindNode(id).Definition
        /\ \A i \in 1..Len(OutEdges) :
               /\ OutEdges[i].id = ToStr(i)
               /\ OutEdges[i].group = FindNode(OutEdges[i].source).FamilyID


-----------------------------------------------------------------------------
(* SpecBfsRun: bfsReachable run one iteration of its while loop at a time  *)

\* lines 491-492: q and seen hold start, or nothing when start is empty;
\* pushed lists every id ever put on q, in order
BfsStarted(start) ==
    LET first == IF start # "" THEN <<start>> ELSE <<>>
    IN  [done |-> FALSE, value |-> first, q |-> first, pushed |-> first]

InitBfsRun ==
    /\ nodes = <<>> /\ edges = <<>>
    /\ lifecycleMode = "none" /\ title = "" /\ description = ""
    /\ activeEdgeKeys = <<>> /\ nodeDesc = NoNodeDesc /\ dirty = FALSE
    /\ filterMode = NULL /\ selectedName = "" /\ selectedGroup = ""
    /\ legendActive = <<>> /\ pending = <<>> /\ io = NoIo
    /\ fnArgs \in [fn : {"bfsReachable"}, start : BfsIds \cup {""},
                   edgesSet : SeqsUpTo(BfsKeys, MaxBfsEdges)]
    /\ fnRet = BfsStarted(fnArgs.start) /\ autosave = NoAutosave

\* lines 493-502: one iteration of `while (q.length)`: q.shift() and the whole for loop
BfsIterate ==
    /\ ~fnRet.done
    /\ fnRet.q # <<>>
    /\ LET r == bfsScan(Head(fnRet.q), fnArgs.edgesSet, 1, fnRet.value, Tail(fnRet.q))
       IN  fnRet' = [done   |-> FALSE,
                     value  |-> r[1],
                     q      |-> r[2],
                     pushed |-> fnRet.pushed \o SubSeq(r[2], Len(fnRet.q), Len(r[2]))]
    /\ UNCHANGED <<editorVars, fnArgs>>

\* lines 493, 503: q is empty, the loop is left and seen is returned
BfsReturn ==
    /\ ~fnRet.done
    /\ fnRet.q = <<>>
    /\ fnRet' = [fnRet EXCEPT !.done = TRUE]
    /\ UNCHANGED <<editorVars, fnArgs>>

NextBfsRun == BfsIterate \/ BfsReturn

\* the loop is synchronous code: once called, it runs until it returns
SpecBfsRun == InitBfsRun /\ [][NextBfsRun]_vars /\ WF_vars(NextBfsRun)

\* C19: bfsReachable terminates for every finite set of active edges, with cycles
\* and self-loops among them, and no node is put on the queue more than once.
C19_BfsTerminates ==
    /\ [](NoDup(fnRet.pushed) /\ Len(fnRet.pushed) <= Cardinality(BfsIds))
    /\ <>fnRet.done

\* a run over a self-loop and a two-node cycle has returned, each node queued once
C19_Witness ==
    /\ fnRet.done
    /\ fnArgs.start = "a"
    /\ fnArgs.edgesSet = <<Key("a", "a"), Key("a", "b"), Key("b", "a")>>
    /\ fnRet.pushed = <<"a", "b">>
    /\ Range(fnRet.value) = {"a", "b"}


-----------------------------------------------------------------------------
(* SpecFilter: the by-node filter on every network shown                   *)

MaxShownKeys == 3

\* the catalog with the cycle Use -> Acquire and the edge Use -> Use
LoopEdges == Append(CyclicEdges, EdgeRow("6", "3", "3", "F5", ""))

FilterCatalogs == {MasterEdges, CyclicEdges, LoopEdges}

\* the names of the select (lines 2950-2963), and one no node has (a selectedName
\* restored from a snapshot)
FilterNames == {"Specify needs", "Acquire", "Use", "Share", "Dispose", "Archive"}

InitFilter ==
    /\ nodes = MasterNodes
    /\ edges \in FilterCatalogs
    /\ lifecycleMode \in {"none", "edit"}
    /\ title = "" /\ description = ""
    /\ activeEdgeKeys \in
           IF lifecycleMode = "none" THEN {<<>>}
           ELSE SeqsUpTo({Key(edges[i].source, edges[i].target) : i \in 1..Len(edges)},
                         MaxShownKeys)
    /\ nodeDesc = NoNodeDesc /\ dirty = FALSE
    /\ filterMode = NULL /\ selectedName = "" /\ selectedGroup = ""
    /\ legendActive = groups /\ pending = <<>> /\ io = NoIo
    /\ fnArgs = NoArgs /\ fnRet = NoRet /\ autosave = NoAutosave

NextFilter == \E name \in FilterNames : ApplySelectByName(name)

SpecFilter == InitFilter /\ [][NextFilter]_vars

\* the edges shown, the node the filter was applied for, and the two keep sets
Shown == Range(baseEdges)

KeptNodes == Range(io.lines)

KeptEdges == Range(io.file)

\* C20: By-node filter.  applySelectByName(n) keeps exactly the node n, every edge
\* shown whose source is n, and the targets of those edges; an edge from another
\* node into n is not kept, and the source of such an edge is kept only when it is
\* also the target of an edge shown from n.
C20_ByNodeKeeps ==
    io.kind = "dim" =>
        LET n == io.head
            Out == {e \in Shown : e.source = n}
        IN  /\ n = NameToId(toLowerCase(selectedName))
            /\ NoDup(io.lines) /\ NoDup(io.file)
            /\ KeptEdges = {e.id : e \in Out}
            /\ KeptNodes = {n} \cup {e.target : e \in Out}
            /\ \A e \in Shown :
                   e.target = n /\ e.source # n =>
                       /\ e.id \notin KeptEdges
                       /\ e.source \in KeptNodes => \E f \in Out : f.target = e.source

\* C20 as stated: no edge whose target is n is kept
C20_NoEdgeIntoSelectedKept ==
    io.kind = "dim" =>
        /\ KeptEdges = {e.id : e \in {f \in Shown : f.source = io.head}}
        /\ KeptNodes = {io.head} \cup {e.target : e \in {f \in Shown : f.source = io.head}}
        /\ \A e \in Shown :
               e.target = io.head =>
                   /\ e.id \notin KeptEdges
                   /\ e.source \in KeptNodes =>
                          \E f \in Shown : f.source = io.head /\ f.target = e.source

\* Acquire was selected in the whole catalog: its two outgoing edges and their targets
\* are kept, the edge from Specify needs is not, nor is Specify needs
C20_Witness ==
    /\ io.kind = "dim" /\ io.head = "2"
    /\ lifecycleMode = "none" /\ edges = CyclicEdges
    /\ KeptEdges = {"2", "4"}
    /\ KeptNodes = {"2", "3", "4"}


-----------------------------------------------------------------------------
(* SpecSelect: the filter panel (selects, Apply buttons, legend, Clear)    *)

\* the catalog with the family of Use in its three-word form
ThreeWordNodes == [MasterNodes EXCEPT ![3].Family = "Access, use & share"]

\* activations of a draft being edited: none, a path, a path with both branches
SelectActivations ==
    {<<>>, <<Key("1", "2")>>, <<Key("1", "2"), Key("2", "3")>>,
     <<Key("1", "2"), Key("2", "4"), Key("2", "3"), Key("3", "5")>>}

\* a state file written while two families were active in the legend (filter mode
\* 'legend' is one of FilterMode, line 407, and importJSON takes it as it is)
LegendSnapshot ==
    [EmptyPersist EXCEPT !.filterMode = "legend",
                         !.legendActive = <<"INITIATION", "ACQUISITION">>]

InitSelect ==
    /\ nodes \in {MasterNodes, ThreeWordNodes}
    /\ edges \in {MasterEdges, LoopEdges}
    /\ lifecycleMode \in {"none", "edit"}
    /\ title = "" /\ description = ""
    /\ activeEdgeKeys \in IF lifecycleMode = "none" THEN {<<>>} ELSE SelectActivations
    /\ nodeDesc = NoNodeDesc /\ dirty = FALSE
    /\ filterMode = NULL /\ selectedName = "" /\ selectedGroup = ""
    /\ legendActive = groups /\ pending = <<>> /\ io = NoIo
    /\ fnArgs = NoArgs /\ fnRet = NoRet /\ autosave = NoAutosave

NextSelect ==
    \/ \E name \in FilterNames \cup {""} : PickName(name)
    \/ \E group \in Range(CANON_FAMILY_ORDER) \cup {""} : PickGroup(group)
    \/ ApplyName
    \/ ApplyGroup
    \/ \E fam \in Range(CANON_FAMILY_ORDER) : LegendClick(fam)
    \/ ClearFilters
    \/ ImportJSON(JSONstringify(LegendSnapshot))

SpecSelect == InitSelect /\ [][NextSelect]_vars

\* the ids of the nodes of family g
FamilyIds(g) == {nodes[i].NameID : i \in {j \in 1..Len(nodes) : canonFam(nodes[j].Family) = g}}

C22_AtMostOneSelector ==
    /\ filterMode = "id" => selectedGroup = ""
    /\ filterMode = "group" => selectedName = ""
    /\ filterMode = "legend" => selectedName = "" /\ selectedGroup = ""


\* C23: Legend set is never empty.  A legend click outside legend mode makes the set
\* of active families exactly the clicked family; a click in legend mode toggles the
\* membership of the clicked family, except that the toggle-off that would empty the
\* set leaves the clicked family in; the set is never empty after a click.
C23_LegendToggles ==
    [][\A fam \in Range(CANON_FAMILY_ORDER) :
           LegendClick(fam) =>
               /\ NoDup(legendActive') /\ legendActive' # <<>>
               /\ Range(legendActive') =
                      IF filterMode # "legend" THEN {fam}
                      ELSE IF fam \notin Range(legendActive)
                           THEN Range(legendActive) \cup {fam}
                           ELSE IF Range(legendActive) = {fam} THEN {fam}
                                ELSE Range(legendActive) \ {fam}]_vars


\* a step changes what the user edits: the draft, a description, or a filter selection
Mutated ==
    \/ title' # title \/ description' # description
    \/ activeEdgeKeys' # activeEdgeKeys
    \/ nodeDesc' # nodeDesc \/ edges' # edges
    \/ selectedName' # selectedName \/ selectedGroup' # selectedGroup
    \/ filterMode' # filterMode \/ legendActive' # legendActive

\* a step is an explicit export that succeeded: a workbook or a state file was written
Exported == io'.kind \in {"file", "export"}

\* C24: Dirty on mutation.  Every step that changes the title, the description, the
\* activation set, a description of a node or an edge, or a filter selection leaves
\* the dirty flag set, and the flag stays set until an explicit export succeeds.
C24_DirtyOnMutation ==
    [][/\ Mutated => dirty'
       /\ dirty /\ ~Exported => dirty']_vars


-----------------------------------------------------------------------------
(* SpecExport: editing, saving, exporting and sharing a draft              *)

ExportTitles == {"My Flow"}

InitExport == Fresh({})

\* the handlers that edit: each of them ends with markDirty
EditStep ==
    \/ StartLifecycleCreate
    \/ ResetLifecycle
    \/ \E t \in ExportTitles : SetTitle(t)
    \/ \E d \in EditorDescriptions : SetDescription(d)
    \/ \E i \in 1..Len(edges) : ToggleEdge(i)
    \/ ClearFilters

NextExport ==
    \/ EditStep
    \/ SaveLifecycle
    \/ ExportJSON
    \/ ExportJSONFails
    \/ \E resolves \in BOOLEAN : CopyShareLink(resolves)

SpecExport == InitExport /\ [][NextExport]_vars

\* a step wrote a workbook, downloaded a state file or copied a link
ExportSucceeded == io'.kind \in {"file", "export", "link"}

\* C25: Export clears dirty.  Right after a workbook save, a JSON download or a
\* copy-link that succeeded the dirty flag is false; the flag becomes true again
\* only in a step of an editing handler (which may leave every field as it was);
\* an export that failed and a save that validation blocked leave the flag as it is.
C25_ExportClearsDirty ==
    [][/\ ExportSucceeded => ~dirty'
       /\ (~dirty /\ dirty') => EditStep
       /\ io'.kind = "alert" => dirty' = dirty]_vars

\* C25 as stated: the flag becomes true again only in a step that changes the mode,
\* the draft, a description or a filter selection
C25_DirtyOnlyByMutation ==
    [][/\ ExportSucceeded => ~dirty'
       /\ (~dirty /\ dirty') => (Mutated \/ lifecycleMode' # lifecycleMode)
       /\ io'.kind = "alert" => dirty' = dirty]_vars

\* a valid draft was saved as a workbook and the flag is cleared
C25_Witness ==
    /\ io.kind = "file"
    /\ ~dirty
    /\ title = "My Flow"
    /\ Len(activeEdgeKeys) >= 2


-----------------------------------------------------------------------------
(* The debounced autosave (App.tsx 2309-2318)                              *)

\* a timeout is identified by the snapshot its closure holds; the cleanup of the
\* effect, clearTimeout(t), removes the timeout the last run of the effect set
Cleared == SelectSeq(autosave.timers, LAMBDA t : t # autosave.deps)

\* the effect without its cleanup
RunEffectNoCleanup ==
    [timers |-> Append(autosave.timers, snapshot), deps |-> snapshot, item |-> autosave.item]

\* what a run of the effect leaves: the cleanup of the last run, then setTimeout
RunEffect ==
    [timers |-> Append(Cleared, snapshot), deps |-> snapshot, item |-> autosave.item]

\* The effect runs after a render in which snapshot changed (line 2318: [snapshot]).
\* The model takes a change of value for it; a render that builds an equal snapshot
\* anew would only set the same write again.
AutosaveEffect ==
    /\ autosave.deps # snapshot
    /\ autosave' = RunEffect
    /\ UNCHANGED <<nodes, edges, lifecycleMode, title, description, activeEdgeKeys,
                   nodeDesc, dirty, filterMode, selectedName, selectedGroup, legendActive,
                   pending, io, fnArgs, fnRet>>

\* the callback of timeout i (lines 2311-2315): localStorage.setItem stores the text,
\* or throws (quota, storage disabled) and the catch warns
AutosaveFires(i, stores) ==
    LET text == JSONstringify(autosave.timers[i])
    IN  /\ autosave' =
               [timers |-> [j \in 1..(Len(autosave.timers) - 1) |->
                               IF j < i THEN autosave.timers[j] ELSE autosave.timers[j + 1]],
                deps   |-> autosave.deps,
                item   |-> IF stores THEN Item(text) ELSE autosave.item]
        /\ io' = Read("storage", IF stores THEN "" ELSE "localStorage save failed", text)
        /\ UNCHANGED <<nodes, edges, lifecycleMode, title, description, activeEdgeKeys,
                       nodeDesc, dirty, filterMode, selectedName, selectedGroup,
                       legendActive, pending, fnArgs, fnRet>>

-----------------------------------------------------------------------------
(* SpecAutosave: a draft is typed and its snapshots are written            *)

\* the state after the mount, the CSV load and the hydration with nothing saved: the
\* effect has run for the snapshot shown and its timeout is pending
InitAutosave ==
    /\ nodes = MasterNodes
    /\ edges = MasterEdges
    /\ lifecycleMode = "none" /\ title = "" /\ description = ""
    /\ activeEdgeKeys = <<>> /\ nodeDesc = NoNodeDesc /\ dirty = FALSE
    /\ filterMode = NULL /\ selectedName = "" /\ selectedGroup = ""
    /\ legendActive = groups /\ pending = <<>> /\ io = NoIo
    /\ fnArgs = NoArgs /\ fnRet = NoRet
    /\ autosave = [timers |-> <<snapshot>>, deps |-> snapshot, item |-> NoItem]

\* a session of editing that comes to an end: the draft is created once, the title
\* and the description are typed once, edges are only switched on
Typing ==
    \/ lifecycleMode = "none" /\ StartLifecycleCreate
    \/ \E t \in ExportTitles : title # t /\ SetTitle(t)
    \/ \E d \in EditorDescriptions : description # d /\ SetDescription(d)
    \/ \E i \in 1..Len(edges) :
           /\ ~SetHas(activeEdgeKeys, Key(edges[i].source, edges[i].target))
           /\ ToggleEdge(i)

TimeoutFires == \E i \in 1..Len(autosave.timers), stores \in BOOLEAN : AutosaveFires(i, stores)

NextAutosave ==
    \/ Typing
    \/ AutosaveEffect
    \/ TimeoutFires

\* React runs the effect after every render, and the browser runs a timeout that is
\* not cleared
SpecAutosave ==
    /\ InitAutosave /\ [][NextAutosave]_vars
    /\ WF_vars(AutosaveEffect) /\ WF_vars(TimeoutFires)


\* a step is the callback of a timeout
Fired == Len(autosave'.timers) < Len(autosave.timers)

\* the safety half of C26: one timeout at most; a run of the effect leaves exactly
\* the timeout of the snapshot shown; a timeout writes the snapshot of the last run
\* of the effect, which is the one shown once the effect has run
DebounceSafe ==
    /\ [](Len(autosave.timers) <= 1)
    /\ [][AutosaveEffect => autosave'.timers = <<snapshot>>]_vars
    /\ [][Fired => /\ io'.kind = "storage"
                   /\ io'.file = JSONstringify(autosave.deps)
                   /\ autosave.deps = snapshot => io'.file = JSONstringify(snapshot)
                   /\ io'.head = "" => autosave'.item = Item(io'.file)]_vars

\* the typing has ended and the last timeout has run for the snapshot shown
Settled ==
    /\ autosave.timers = <<>>
    /\ autosave.deps = snapshot
    /\ io.kind = "storage"
    /\ io.file = JSONstringify(snapshot)

-----------------------------------------------------------------------------
(* Spec, continued                                                         *)

\* the edges of the catalog as the CSV load left them (lines 859-872), for the nodes
\* of the session
DefaultEdges ==
    SelectSeq(MasterEdges, LAMBDA e : InNodeById(e.source) /\ InNodeById(e.target))

\* C27: Cancelling discards the whole draft.  After resetLifecycle the mode is 'none',
\* the title, the description and the activation set are empty, and no override of
\* a node description or an edge description is in effect any more: the textarea of
\* each node shows the Definition of the catalog (nodeDesc[id] ?? n.Definition, line
\* 2557) and each edge has the description of the catalog.
C27_CancelDiscardsDraft ==
    [][ResetLifecycle =>
           /\ lifecycleMode' = "none"
           /\ title' = "" /\ description' = "" /\ activeEdgeKeys' = <<>>
           /\ \A i \in 1..Len(nodes) :
                  LET id == nodes[i].NameID
                  IN  nodeDesc'[id] = UNDEF \/ nodeDesc'[id] = nodes[i].Definition
           /\ edges' = DefaultEdges]_vars


\* C28: No lost update across the asynchronous file read.  When a handleLifecycleLoad
\* commits, every edge of the catalog that the workbook does not mention (and that
\* the auto-heal does not add) keeps the description it had right before the commit,
\* whatever was edited between the start of the call and its commit.
C28_NoLostUpdate ==
    [][(io'.kind = "load" /\ io'.head = "" /\ io'.file.readable) =>
           \A k \in 1..Len(edges) :
               Key(edges[k].source, edges[k].target) \notin ImportedPairs' \cup {AnchorPair}
                   => edges'[k].description = edges[k].description]_vars


-----------------------------------------------------------------------------
(* SpecSave, continued                                                     *)

OutIds == {OutNodes[i].NameID : i \in 1..Len(OutNodes)}

\* C29: Every workbook written by saveLifecycle is referentially closed: the source
\* and the target of every row of its Edges sheet are NameIDs of rows of its Nodes
\* sheet.
C29_WorkbookClosed ==
    io.kind = "file" =>
        \A i \in 1..Len(OutEdges) :
            OutEdges[i].source \in OutIds /\ OutEdges[i].target \in OutIds

\* the path to Dispose was written: three edge rows over four node rows
C29_Witness ==
    /\ io.kind = "file"
    /\ OutPairs = {Key("1", "2"), Key("2", "3"), Key("3", "5")}
    /\ OutIds = {"1", "2", "3", "5"}


-----------------------------------------------------------------------------
(* SpecGate: a create session of the editor, where only the checkboxes of   *)
(* the edges are used, over the catalog with the cycle Use -> Acquire, the  *)
(* same without the node Acquire, and the same with a self-loop on Use.     *)

GateCatalogs ==
    {CyclicEdges, CatalogEdges({"2"}, CyclicEdges),
     Append(CyclicEdges, EdgeRow("6", "3", "3", "F5", ""))}

InitGate ==
    /\ edges \in GateCatalogs
    /\ nodes = IF edges = CatalogEdges({"2"}, CyclicEdges) THEN CatalogNodes({"2"})
               ELSE MasterNodes
    /\ lifecycleMode = "none" /\ title = "" /\ description = ""
    /\ activeEdgeKeys = <<>> /\ nodeDesc = NoNodeDesc /\ dirty = FALSE
    /\ filterMode = NULL /\ selectedName = "" /\ selectedGroup = ""
    /\ legendActive = groups /\ pending = <<>> /\ io = NoIo
    /\ fnArgs = NoArgs /\ fnRet = NoRet /\ autosave = NoAutosave

NextGate ==
    \/ StartLifecycleCreate
    \/ \E i \in 1..Len(edges) : ToggleEdge(i)

SpecGate == InitGate /\ [][NextGate]_vars

\* the start node and what the active keys reach from it
GateReach == {startNodeId} \cup Closure(startNodeId, Active, CatalogIds)

\* every active edge leaves a node of the reachable set
SourcesReachable == \A k \in Active : KeySrc(k) \in GateReach

\* C30: Edit gating of edge toggles.  A step that changes the activation set other
\* than by startLifecycleCreate toggles exactly one key of the catalog whose source
\* is the start node or in the reachable set; a step that removes no key (create or
\* an activation) keeps the source of every active edge in the reachable set, so
\* only a deactivation can leave an active edge with an unreachable source, and it
\* removes exactly the toggled key.
C30_EditGating ==
    /\ [][activeEdgeKeys' # activeEdgeKeys =>
              \/ StartLifecycleCreate
              \/ \E i \in 1..Len(edges) :
                     LET key == Key(edges[i].source, edges[i].target)
                     IN  /\ edges[i].source \in GateReach
                         /\ \/ key \notin Active /\ Active' = Active \cup {key}
                            \/ key \in Active /\ Active' = Active \ {key}]_vars
    /\ [][(SourcesReachable /\ (Active \subseteq Active' \/ Active' = {}))
              => SourcesReachable']_vars

\* Acquire -> Use is still active after Specify needs -> Acquire was switched off
C30_Witness ==
    /\ lifecycleMode = "create"
    /\ Key("2", "3") \in Active
    /\ Key("1", "2") \notin Active
    /\ ~SourcesReachable

=============================================================================
